---- MODULE Spec2Model ----
(***************************************************************************)
(* Model of the API import orchestrator, src/scripts/import-apis.py.       *)
(*                                                                         *)
(* main() submits one process_api_file job per file to a thread pool; a     *)
(* job loads the file, ensures the version set (check, then create),        *)
(* imports with retry, updates the API's version metadata and appends one   *)
(* line {api_id: code} to the shared result file.  The gateway (Azure SDK   *)
(* and az CLI) is the environment: each remote call returns one of the      *)
(* responses the gateway can give.                                          *)
(*                                                                         *)
(* The module also models src/scripts/api-validator.py (SpecValidator) and  *)
(* the version-set script src/apiazure.py (SpecVersionSets); each program   *)
(* has its own variables, which stay at their "off" values while another    *)
(* program runs.                                                            *)
(***************************************************************************)
EXTENDS Integers, Sequences, FiniteSets, TLC

(* ---------------- bounds of the model ---------------- *)

\* Largest number of files in api_files.
NumFiles == 3

\* max_workers of the pool.  The source passes MAX_CONCURRENT = 4
\* (import-apis.py:27); the model keeps the pool smaller than the file list
\* so that jobs queue behind busy workers.
PoolSize == 2

(* ---------------- program constants ---------------- *)

MAX_RETRIES == 3

\* time.sleep(10) between import attempts
BACKOFF == 10

\* base names (file name without directory and extension) of the spec files
BaseNames == {"pet", "store"}

Jobs == 1..NumFiles

(* ---------------- state ---------------- *)

VARIABLES
    api_files,      \* main: the list of files found (base name, kind of file)
    run,            \* "first" or "second" execution of the script
    main_pc,        \* position of the main thread
    next_file,      \* index of the for-loop over api_files (line 243)
    futures,        \* sequence of submitted jobs (line 242)
    cancelled,      \* a KeyboardInterrupt has reached the main thread
    exit_code,      \* argument of sys.exit, -1 while the process runs
    results,        \* the summary mapping built from the result file
    ledger,         \* the lines of result_file
    version_sets,   \* gateway: number of version-set entities per key
    apis,           \* gateway: number of API entities per api id
    sets_before,    \* gateway version sets when this execution started
    pc,             \* per job: position in process_api_file / import_api
    retry_count,    \* per job: import_api's retry_count
    success,        \* per job: import_api's success
    version_id,     \* per job: process_api_file's version_id (line 185)
    pending,        \* per job: the line {id: code} about to be written
    pos,            \* per job: file offset held by the open result file
    resume,         \* per job: where control goes after the write
    calls,          \* per job: number of calls of each step so far
    create_error,   \* per job: why create_or_update raised
    raised,         \* per job: an exception reached the job boundary
    outcome,        \* per job: the lines this job has written
    spec_file,      \* validator: the file at spec_path (parses or not, value)
    spec,           \* validator: self.spec
    errors,         \* validator: self.errors
    warnings,       \* validator: self.warnings
    v_pc,           \* validator: position in main / validate
    is_valid,       \* validator: what validate() returned
    spec_valid,     \* validator: what report() returned
    v_exit,         \* validator: argument of sys.exit, -1 while it runs
    listing,        \* apiazure: the names os.listdir('./openapi/') returns
    files,          \* apiazure: the names that match the regex (line 51)
    vSets,          \* apiazure: the set of keys (line 54)
    todo,           \* apiazure: keys the for loop has not reached yet
    az_pc,          \* apiazure: position in main
    cv_calls,       \* apiazure: calls of createOrUpdateVersionSet per key
    tokens,         \* apiazure: token requests sent
    puts,           \* apiazure: PUT requests sent per key
    az_exit         \* apiazure: exit status, -1 while it runs

mainVars == <<api_files, run, main_pc, next_file, futures, cancelled,
              exit_code, results>>
remoteVars == <<version_sets, apis, sets_before>>
localVars == <<retry_count, success, version_id, pending, pos, resume, calls,
               create_error, raised>>
valVars == <<spec_file, spec, errors, warnings, v_pc, is_valid, spec_valid,
             v_exit>>
azVars == <<listing, files, vSets, todo, az_pc, cv_calls, tokens, puts,
            az_exit>>
vars == <<mainVars, ledger, remoteVars, pc, localVars, outcome, valVars,
          azVars>>

NoCalls == [check |-> 0, create |-> 0, import |-> 0, sleep |-> 0,
            slept |-> 0, get |-> 0, update |-> 0]

\* lines 177-178: the file name without directory and extension
BaseName(j) == api_files[j].base

\* lines 188-190: api_id = api_path = api_name = base_name
ApiId(j) == BaseName(j)

\* no line is being written
NoLine == [id |-> "none", code |-> 0]

\* Jobs handed to the executor in this execution
Submitted == {futures[i] : i \in 1..Len(futures)}

Running == {j \in Submitted : pc[j] \notin {"queued", "done"}}

(* ---------------- initial state ---------------- *)

\* What a listed path is on disk: no regular file (a path of a deleted
\* file in the change list), a file that yaml.safe_load or the .get calls
\* reject, or a spec document
FileKinds == {"missing", "unloadable", "spec"}

\* The other documents a regular file can hold: an empty file, a top level
\* that is no mapping, no info key, info: null, info without version,
\* info.version: null
DocKinds ==
    {"unloadable", "empty", "notmapping", "noinfo", "nullinfo", "noversion",
     "nullversion", "spec"}

\* What yaml.safe_load gives for a file of each kind (line 183): whether it
\* parses, the top-level value, the value under info, the value under
\* info.version
DocOf(kind) ==
    CASE kind = "unloadable" ->
           [parses |-> FALSE, top |-> "none", info |-> "absent", version |-> "absent"]
      [] kind = "empty" ->
           [parses |-> TRUE, top |-> "none", info |-> "absent", version |-> "absent"]
      [] kind = "notmapping" ->
           [parses |-> TRUE, top |-> "list", info |-> "absent", version |-> "absent"]
      [] kind = "noinfo" ->
           [parses |-> TRUE, top |-> "map", info |-> "absent", version |-> "absent"]
      [] kind = "nullinfo" ->
           [parses |-> TRUE, top |-> "map", info |-> "null", version |-> "absent"]
      [] kind = "noversion" ->
           [parses |-> TRUE, top |-> "map", info |-> "map", version |-> "absent"]
      [] kind = "nullversion" ->
           [parses |-> TRUE, top |-> "map", info |-> "map", version |-> "null"]
      [] OTHER ->
           [parses |-> TRUE, top |-> "map", info |-> "map", version |-> "value"]

\* api_spec['info']['version'] in place of the two .get calls
LoadVersion_Strict(d) ==
    IF ~d.parses \/ d.top # "map" \/ d.info # "map" \/ d.version = "absent"
      THEN "raise"
    ELSE IF d.version = "null" THEN "None"
    ELSE "declared"

\* lines 182-185: yaml.safe_load, then
\* api_spec.get('info', {}).get('version', '1.0').  The default of a .get
\* is used only when the key is absent; a value that has no .get (None, a
\* list) raises AttributeError.
LoadVersion(d) ==
    IF ~d.parses THEN "raise"
    ELSE IF d.top # "map" THEN "raise"
    ELSE IF d.info = "absent" THEN "1.0"
    ELSE IF d.info # "map" THEN "raise"
    ELSE IF d.version = "absent" THEN "1.0"
    ELSE IF d.version = "null" THEN "None"
    ELSE "declared"

(* ---------------- api-validator.py: documents ---------------- *)

\* A loaded YAML/JSON value.  t is its Python type, s the text of a scalar
\* as a sequence of tokens (so that prefixes and suffixes can be tested),
\* ch the entries of a mapping (key, value) or of a list (value only), in
\* document order.
Null == [t |-> "null", s |-> <<>>, ch |-> <<>>]
StrTok(toks) == [t |-> "str", s |-> toks, ch |-> <<>>]
Str(x) == StrTok(<<x>>)
IntTok(toks) == [t |-> "int", s |-> toks, ch |-> <<>>]
FloatTok(toks) == [t |-> "float", s |-> toks, ch |-> <<>>]
Bool(b) == [t |-> "bool", s |-> <<IF b THEN "true" ELSE "false">>, ch |-> <<>>]
KV(k, v) == [k |-> Str(k), v |-> v]
Map(entries) == [t |-> "map", s |-> <<>>, ch |-> entries]
List(items) ==
    [t |-> "list", s |-> <<>>,
     ch |-> [i \in 1..Len(items) |-> [k |-> Null, v |-> items[i]]]]

\* bool(x)
Truthy(x) ==
    CASE x.t = "null" -> FALSE
      [] x.t = "bool" -> x.s = <<"true">>
      [] x.t \in {"int", "float"} -> x.s \notin {<<"0">>, <<"0", ".", "0">>}
      [] x.t = "str" -> x.s # <<>>
      [] OTHER -> x.ch # <<>>

\* `key in x` raises TypeError unless x is a container or a string
CanContain(x) == x.t \in {"map", "list", "str"}

\* `key in x` for a string key: a key of the mapping, an element of the
\* list, a part of the string
In(key, x) ==
    CASE x.t = "map" -> \E i \in 1..Len(x.ch) : x.ch[i].k = Str(key)
      [] x.t = "list" -> \E i \in 1..Len(x.ch) : x.ch[i].v = Str(key)
      [] x.t = "str" -> \E i \in 1..Len(x.s) : x.s[i] = key
      [] OTHER -> FALSE

\* x[key] of a mapping that has the key
Item(x, key) ==
    x.ch[CHOOSE i \in 1..Len(x.ch) : x.ch[i].k = Str(key)].v

\* x.get(key, default) of a mapping; other values have no .get
Get(x, key, default) == IF In(key, x) THEN Item(x, key) ELSE default

\* s.startswith(prefix) / s.endswith(suffix) of a string
StartsWith(x, prefix) ==
    /\ Len(x.s) >= Len(prefix)
    /\ SubSeq(x.s, 1, Len(prefix)) = prefix

EndsWith(x, suffix) ==
    /\ Len(x.s) >= Len(suffix)
    /\ SubSeq(x.s, Len(x.s) - Len(suffix) + 1, Len(x.s)) = suffix

\* validator variables while the orchestrator runs
ValidatorOff ==
    /\ spec_file = [parses |-> TRUE, value |-> Null]
    /\ spec = Null
    /\ errors = <<>>
    /\ warnings = <<>>
    /\ v_pc = "off"
    /\ is_valid = "unset"
    /\ spec_valid = "unset"
    /\ v_exit = -1


(* ---------------- apiazure.py: file names ---------------- *)

\* A file name is the sequence of its characters.  The characters that
\* [a-zA-Z0-9_] accepts, and those that \d accepts
WordChars == {"a", "b", "k", "l", "m", "v", "y", "_", "1", "2", "3", "4"}
Digits == {"1", "2", "3", "4"}

\* The end of a file name the regex asks for: \.yaml$
Suffix == <<".", "y", "a", "m", "l">>

\* line 49, 51: regex.match(file) for ^([a-zA-Z0-9_]*)-(v\d{0,3})\.yaml$.
\* The name before "-" is any run of word characters, the empty one too;
\* after "-v" come no to three digits, and ".yaml" ends the name (the
\* names of the model hold no newline).
Match(f) ==
    \E i \in 1..Len(f), d \in 0..3 :
        /\ \A n \in 1..(i - 1) : f[n] \in WordChars
        /\ f[i] = "-"
        /\ Len(f) = i + 1 + d + Len(Suffix)
        /\ f[i + 1] = "v"
        /\ \A n \in (i + 2)..(i + 1 + d) : f[n] \in Digits
        /\ SubSeq(f, i + 2 + d, Len(f)) = Suffix

\* The key as the file name up to its extension: the version stays in it
Key_KeepsVersion(f) ==
    LET cut == {i \in 1..Len(f) : f[i] = "."}
    IN  IF cut = {} THEN f
        ELSE SubSeq(f, 1, (CHOOSE i \in cut : \A i2 \in cut : i <= i2) - 1)

\* line 54: re.split('-|\.', file)[0], the text before the first "-" or "."
Key(f) ==
    LET cut == {i \in 1..Len(f) : f[i] \in {"-", "."}}
    IN  IF cut = {} THEN f
        ELSE SubSeq(f, 1, (CHOOSE i \in cut : \A i2 \in cut : i <= i2) - 1)

\* The names before the "-" of the files of the model: a, b, a_1 and the
\* empty name
Names == {<<>>, <<"a">>, <<"b">>, <<"a", "_", "1">>}

\* The versions after the "v": none, 1, 2, 123
Versions == {<<>>, <<"1">>, <<"2">>, <<"1", "2", "3">>}

\* name-vN.yaml
Conventional(name, version) == name \o <<"-", "v">> \o version \o Suffix

\* Names that do not follow name-vN.yaml: a.yaml, a-v1234.yaml,
\* a-b-v1.yaml, a.b-v1.yaml, a-v1.yml, a-v1.yaml.bak, b-1.yaml, bv1.yaml
OtherNames ==
    {<<"a">> \o Suffix,
     <<"a", "-", "v", "1", "2", "3", "4">> \o Suffix,
     <<"a", "-", "b", "-", "v", "1">> \o Suffix,
     <<"a", ".", "b", "-", "v", "1">> \o Suffix,
     <<"a", "-", "v", "1", ".", "y", "m", "l">>,
     <<"a", "-", "v", "1">> \o Suffix \o <<".", "b", "a", "k">>,
     <<"b", "-", "1">> \o Suffix,
     <<"b", "v", "1">> \o Suffix}

\* The file names ./openapi/ can hold in the model
FileNames ==
    {Conventional(n, v) : n \in Names, v \in Versions} \cup OtherNames

\* Largest number of entries of ./openapi/
MaxListed == 3

\* What os.listdir can return: the names of a directory are distinct
Listings == {l \in SUBSET FileNames : Cardinality(l) <= MaxListed}

\* The values the loop variable vSet can take
Keys == {Key(f) : f \in FileNames}

\* apiazure variables while another program runs
VersionSetScriptOff ==
    /\ listing = {}
    /\ files = {}
    /\ vSets = {}
    /\ todo = {}
    /\ az_pc = "off"
    /\ cv_calls = [k \in Keys |-> 0]
    /\ tokens = 0
    /\ puts = [k \in Keys |-> 0]
    /\ az_exit = -1

\* The file lists main can find: none, or NumFiles files.  Base names may
\* repeat (apis/a/pet.yaml and apis/b/pet.yaml); the first file is named
\* "pet", the names being interchangeable.
FileLists ==
    {<<>>} \cup
    {f \in [1..NumFiles -> [base : BaseNames, kind : FileKinds]] :
        f[1].base = "pet"}

Init ==
    /\ api_files \in FileLists
    /\ run = "first"
    /\ main_pc = "find"
    /\ next_file = 1
    /\ futures = <<>>
    /\ cancelled = FALSE
    /\ exit_code = -1
    /\ results = [k \in BaseNames |-> 0]
    /\ ledger = <<>>
    /\ version_sets = [k \in BaseNames |-> 0]
    /\ apis = [k \in BaseNames |-> 0]
    /\ sets_before = [k \in BaseNames |-> 0]
    /\ pc = [j \in Jobs |-> "unsubmitted"]
    /\ retry_count = [j \in Jobs |-> 0]
    /\ success = [j \in Jobs |-> FALSE]
    /\ version_id = [j \in Jobs |-> "unset"]
    /\ pending = [j \in Jobs |-> NoLine]
    /\ pos = [j \in Jobs |-> 0]
    /\ resume = [j \in Jobs |-> "return"]
    /\ calls = [j \in Jobs |-> NoCalls]
    /\ create_error = [j \in Jobs |-> "none"]
    /\ raised = [j \in Jobs |-> FALSE]
    /\ outcome = [j \in Jobs |-> <<>>]
    /\ ValidatorOff
    /\ VersionSetScriptOff

(* ---------------- the main thread ---------------- *)

\* lines 221-236: an empty file list returns 0 before any job is built
MainFind ==
    /\ main_pc = "find"
    /\ IF Len(api_files) = 0
         THEN main_pc' = "returned" /\ exit_code' = 0
         ELSE main_pc' = "submit" /\ exit_code' = exit_code
    /\ UNCHANGED <<azVars, valVars, api_files, run, next_file, futures, cancelled, results,
                   ledger, remoteVars, pc, localVars, outcome>>

\* The submit loop without the os.path.isfile test
IsFile_Always(j) == TRUE

\* line 244: os.path.isfile(file)
IsFile(j) == api_files[j].kind # "missing"

\* lines 243-245: one iteration of the submit loop
MainSubmit ==
    /\ main_pc = "submit"
    /\ next_file <= Len(api_files)
    /\ IF IsFile(next_file)
         THEN /\ futures' = Append(futures, next_file)
              /\ pc' = [pc EXCEPT ![next_file] = "queued"]
         ELSE UNCHANGED <<futures, pc>>
    /\ next_file' = next_file + 1
    /\ UNCHANGED <<azVars, valVars, api_files, run, main_pc, cancelled, exit_code, results,
                   ledger, remoteVars, localVars, outcome>>

\* line 243: the submit loop is exhausted
MainSubmitted ==
    /\ main_pc = "submit"
    /\ next_file > Len(api_files)
    /\ main_pc' = "wait"
    /\ UNCHANGED <<azVars, valVars, api_files, run, next_file, futures, cancelled, exit_code,
                   results, ledger, remoteVars, pc, localVars, outcome>>

AllDone == \A j \in Submitted : pc[j] = "done"

\* lines 248-254: future.result() for every future, then the executor's
\* __exit__ (shutdown(wait=True)); an exception of a job is logged only
MainWait ==
    /\ main_pc = "wait"
    /\ AllDone
    /\ main_pc' = "summary"
    /\ UNCHANGED <<azVars, valVars, api_files, run, next_file, futures, cancelled, exit_code,
                   results, ledger, remoteVars, pc, localVars, outcome>>

\* lines 260-267: results.update(line) for each line, the last line of a
\* key wins; 0 stands for a key without a line
LastCode(led, k) ==
    LET idx == {i \in 1..Len(led) : led[i].id = k}
    IN  IF idx = {} THEN 0
        ELSE led[CHOOSE i \in idx : \A i2 \in idx : i2 <= i].code

Summary(led) == [k \in BaseNames |-> LastCode(led, k)]

\* line 274: the status main hands to sys.exit
MainReturnCode(res) == 0

\* lines 257-274: read the result file, print the summary, return
MainSummary ==
    /\ main_pc = "summary"
    /\ results' = Summary(ledger)
    /\ exit_code' = MainReturnCode(results')
    /\ main_pc' = "returned"
    /\ UNCHANGED <<azVars, valVars, api_files, run, next_file, futures, cancelled, ledger,
                   remoteVars, pc, localVars, outcome>>

\* A KeyboardInterrupt reaches the main thread inside the with block
\* (lines 241-252).  `except Exception` does not catch it; it leaves the
\* block through the executor's __exit__.
Interrupt ==
    /\ main_pc \in {"submit", "wait"}
    /\ main_pc' = "shutdown"
    /\ cancelled' = TRUE
    /\ UNCHANGED <<azVars, valVars, api_files, run, next_file, futures, exit_code, results,
                   ledger, remoteVars, pc, localVars, outcome>>

\* ThreadPoolExecutor.__exit__ is shutdown(wait=True): it joins the workers,
\* which first drain the work queue; then lines 280-282 exit with status 1
\* and the summary is never built
MainShutdown ==
    /\ main_pc = "shutdown"
    /\ AllDone
    /\ main_pc' = "returned"
    /\ exit_code' = 1
    /\ UNCHANGED <<azVars, valVars, api_files, run, next_file, futures, cancelled, results,
                   ledger, remoteVars, pc, localVars, outcome>>

\* The script is executed again over the same files; the gateway keeps its
\* state, everything else (temp dir, pool, jobs) is new
SecondRun ==
    /\ run = "first"
    /\ main_pc = "returned"
    /\ run' = "second"
    /\ main_pc' = "find"
    /\ next_file' = 1
    /\ futures' = <<>>
    /\ cancelled' = FALSE
    /\ exit_code' = -1
    /\ results' = [k \in BaseNames |-> 0]
    /\ ledger' = <<>>
    /\ sets_before' = version_sets
    /\ pc' = [j \in Jobs |-> "unsubmitted"]
    /\ outcome' = [j \in Jobs |-> <<>>]
    /\ UNCHANGED <<azVars, valVars, api_files, version_sets, apis, localVars>>

(* ---------------- one job: process_api_file / import_api ---------------- *)

Bump(j, step) == [calls EXCEPT ![j][step] = @ + 1]

\* with open(result_file, 'a') as f: the stream is positioned at the end
\* of the file as it is now; no lock is held from here to the write
OpenLedger(j, key, code, then) ==
    /\ pending' = [pending EXCEPT ![j] = [id |-> key, code |-> code]]
    /\ resume' = [resume EXCEPT ![j] = then]
    /\ pos' = [pos EXCEPT ![j] = Len(ledger)]
    /\ pc' = [pc EXCEPT ![j] = "write"]

\* process_api_file without its except clause: the exception ends the job
\* and no line is written
JobExcept_Uncaught(j) ==
    /\ raised' = [raised EXCEPT ![j] = TRUE]
    /\ retry_count' = [retry_count EXCEPT ![j] = 0]
    /\ success' = [success EXCEPT ![j] = FALSE]
    /\ calls' = [calls EXCEPT ![j] = NoCalls]
    /\ pc' = [pc EXCEPT ![j] = "done"]
    /\ UNCHANGED <<pending, resume, pos>>

\* lines 206-209: the except clause of process_api_file.  The frames below
\* it are unwound, so import_api's locals and counts are gone; the line it
\* writes is keyed by base_name, which is the api id
JobExcept(j) ==
    /\ raised' = [raised EXCEPT ![j] = TRUE]
    /\ retry_count' = [retry_count EXCEPT ![j] = 0]
    /\ success' = [success EXCEPT ![j] = FALSE]
    /\ calls' = [calls EXCEPT ![j] = NoCalls]
    /\ OpenLedger(j, BaseName(j), 500, "return")

\* A worker of the pool takes the oldest queued work item when fewer than
\* max_workers jobs are running (lines 241, 245) and runs process_api_file
\* up to its first remote call (lines 177-193): open, yaml.safe_load and
\* api_spec.get(...), which raise for some documents.  Nothing here looks
\* at the interrupt: the workers keep draining the queue during shutdown.
StartJob(j) ==
    /\ j \in Submitted
    /\ pc[j] = "queued"
    /\ \A i \in Submitted : pc[i] = "queued" => j <= i
    /\ Cardinality(Running) < PoolSize
    /\ LET v == LoadVersion(DocOf(api_files[j].kind))
       IN  IF v # "raise"
             THEN /\ pc' = [pc EXCEPT ![j] = "check"]
                  /\ version_id' = [version_id EXCEPT ![j] = v]
                  /\ UNCHANGED <<retry_count, success, pending, pos, resume,
                                 calls, create_error, raised>>
             ELSE /\ JobExcept(j)
                  /\ UNCHANGED <<version_id, create_error>>
    /\ UNCHANGED <<azVars, valVars, mainVars, ledger, remoteVars, outcome>>

\* Status of api_version_set.get for a key: 200 when the entity exists, 404
\* when it does not, 500 for any other failure of the call
GetResponses(key) ==
    IF version_sets[key] > 0 THEN {200, 500} ELSE {404, 500}

\* check_version_set returning False whatever the gateway answers
check_version_set_NotFound(status) ==
    CASE status = 200 -> "False"
      [] status = 404 -> "False"
      [] OTHER -> "raise"

\* lines 58-75: True on success, False on 404, any other error is re-raised
check_version_set(status) ==
    CASE status = 200 -> "True"
      [] status = 404 -> "False"
      [] OTHER -> "raise"

\* line 196: the existence check; True goes on to import_api (line 204)
CheckVersionSet(j) ==
    /\ pc[j] = "check"
    /\ \E status \in GetResponses(ApiId(j)) :
         LET r == check_version_set(status)
         IN  CASE r = "True" ->
                    /\ pc' = [pc EXCEPT ![j] = "import"]
                    /\ calls' = Bump(j, "check")
                    /\ UNCHANGED <<retry_count, success, pending, resume,
                                   pos, raised>>
               [] r = "False" ->
                    /\ pc' = [pc EXCEPT ![j] = "create"]
                    /\ calls' = Bump(j, "check")
                    /\ UNCHANGED <<retry_count, success, pending, resume,
                                   pos, raised>>
               [] OTHER -> JobExcept(j)
    /\ UNCHANGED <<azVars, valVars, mainVars, ledger, remoteVars, version_id, create_error,
                   outcome>>

\* The gateway stores an entity under its id: a PUT of an id that exists
\* replaces the entity, a PUT of a new id adds one
Upsert(store, key) == [store EXCEPT ![key] = IF @ = 0 THEN 1 ELSE @]

\* Outcomes of api_version_set.create_or_update: stored, rejected because
\* the entity is already there, or failed in transport
CreateResponses(key) ==
    {"ok", "transport"} \cup (IF version_sets[key] > 0 THEN {"exists"} ELSE {})

\* create_version_set with `return True` after the except clause
create_version_set_AlwaysTrue(resp) == TRUE

\* lines 78-96: True when the call returns, False on any exception
create_version_set(resp) == resp = "ok"

\* process_api_file without the `return` of line 201
AfterCreateFailure_FallsThrough == "loop"

\* line 201: after the 500 of a failed creation the job returns
AfterCreateFailure == "return"

\* lines 197-201: create the version set; on False write 500 and return
CreateVersionSet(j) ==
    /\ pc[j] = "create"
    /\ calls' = Bump(j, "create")
    /\ \E resp \in CreateResponses(ApiId(j)) :
         /\ version_sets' = IF resp = "ok" THEN Upsert(version_sets, ApiId(j))
                            ELSE version_sets
         /\ IF create_version_set(resp)
              THEN /\ pc' = [pc EXCEPT ![j] = "import"]
                   /\ UNCHANGED <<pending, resume, pos, create_error>>
              ELSE /\ create_error' = [create_error EXCEPT ![j] = resp]
                   /\ OpenLedger(j, ApiId(j), 500, AfterCreateFailure)
    /\ UNCHANGED <<azVars, valVars, mainVars, ledger, apis, sets_before, retry_count, success,
                   version_id, raised, outcome>>

\* The loop condition without `and not success`
LoopCond_IgnoresSuccess(rc, ok) == rc < MAX_RETRIES

\* line 107: the condition of the retry loop
LoopCond(rc, ok) == rc < MAX_RETRIES /\ ~ok

\* The retry test with <= for <
CanRetry_OffByOne(rc) == rc <= MAX_RETRIES

\* The retry test counting from one
CanRetry_TooFew(rc) == rc < MAX_RETRIES - 1

\* line 165: after a failed attempt, is another attempt left
CanRetry(rc) == rc < MAX_RETRIES

\* The else branch without the increment of retry_count
NextRetry_Stuck(rc) == rc

\* line 164: retry_count += 1 after an attempt that returned non-zero
NextRetry(rc) == rc + 1

\* lines 107-127, 163-171: one attempt of `az apim api import`.  Return
\* code 0 stores the API under api_id and goes on to the metadata update;
\* another return code counts a retry and either sleeps 10 and tests the
\* loop again or gives up with 400; run_command may raise
ImportAttempt(j) ==
    /\ pc[j] = "import"
    /\ \E result \in {"zero", "nonzero", "raise"} :
         CASE result = "zero" ->
                /\ calls' = Bump(j, "import")
                /\ success' = [success EXCEPT ![j] = TRUE]
                /\ apis' = Upsert(apis, ApiId(j))
                /\ pc' = [pc EXCEPT ![j] = "update"]
                /\ UNCHANGED <<retry_count, pending, resume, pos, raised>>
           [] result = "nonzero" ->
                /\ retry_count' = [retry_count EXCEPT ![j] = NextRetry(@)]
                /\ IF CanRetry(retry_count'[j])
                     THEN /\ calls' = [calls EXCEPT
                                         ![j]["import"] = @ + 1,
                                         ![j]["sleep"] = @ + 1,
                                         ![j]["slept"] = @ + BACKOFF]
                          /\ pc' = [pc EXCEPT ![j] =
                                      IF LoopCond(retry_count'[j], success[j])
                                        THEN "import" ELSE "done"]
                          /\ UNCHANGED <<pending, resume, pos>>
                     ELSE /\ calls' = Bump(j, "import")
                          /\ OpenLedger(j, ApiId(j), 400, "loop")
                /\ UNCHANGED <<success, apis, raised>>
           [] OTHER ->
                /\ JobExcept(j)
                /\ UNCHANGED apis
    /\ UNCHANGED <<azVars, valVars, mainVars, ledger, version_sets, sets_before, version_id,
                   create_error, outcome>>

\* The except clause of the update writing the code of a failed import
UpdateCode_FailureIs400(result) == IF result = "updated" THEN 200 ELSE 400

\* lines 156-162: 200 after the update has returned, 500 in the except
\* clause of the try block around get and update
UpdateCode(result) == IF result = "updated" THEN 200 ELSE 500

\* lines 130-162: client.api.get of the imported API, then
\* client.api.update with the version and version set id.  200 is written
\* when both return, 500 by the except clause when either raises.
UpdateApi(j) ==
    /\ pc[j] = "update"
    /\ \E result \in {"get raises", "update raises", "updated"} :
         /\ calls' = [calls EXCEPT
                        ![j]["get"] = @ + 1,
                        ![j]["update"] = @ + (IF result = "get raises" THEN 0 ELSE 1)]
         /\ OpenLedger(j, ApiId(j), UpdateCode(result), "loop")
    /\ UNCHANGED <<azVars, valVars, mainVars, ledger, remoteVars, retry_count, success,
                   version_id, create_error, raised, outcome>>

(* ---------------- the result file ---------------- *)

\* The line lands at offset `at`: at the end, or over the line another
\* writer has put at this offset in the meantime
WriteAt(led, at, line) ==
    IF at >= Len(led) THEN Append(led, line)
    ELSE [led EXCEPT ![at + 1] = line]

\* f.write(json.dumps({api_id: code}) + "\n") and close.  Whether the write
\* goes to the current end of the file (append mode honoured atomically by
\* the OS) or to the offset found when the stream was opened depends on the
\* platform; the threads are not synchronised, so both can happen.
\* Afterwards control is back at the loop test (line 107), or the job
\* returns: its future is done and its locals are gone.
WriteLedger(j) ==
    /\ pc[j] = "write"
    /\ \E at \in {pos[j], Len(ledger)} :
         ledger' = WriteAt(ledger, at, pending[j])
    /\ outcome' = [outcome EXCEPT ![j] = Append(@, pending[j])]
    /\ IF resume[j] = "loop" /\ LoopCond(retry_count[j], success[j])
         THEN /\ pc' = [pc EXCEPT ![j] = "import"]
              /\ UNCHANGED localVars
         ELSE /\ pc' = [pc EXCEPT ![j] = "done"]
              /\ retry_count' = [retry_count EXCEPT ![j] = 0]
              /\ success' = [success EXCEPT ![j] = FALSE]
              /\ version_id' = [version_id EXCEPT ![j] = "unset"]
              /\ pending' = [pending EXCEPT ![j] = NoLine]
              /\ pos' = [pos EXCEPT ![j] = 0]
              /\ resume' = [resume EXCEPT ![j] = "return"]
              /\ calls' = [calls EXCEPT ![j] = NoCalls]
              /\ create_error' = [create_error EXCEPT ![j] = "none"]
              /\ raised' = [raised EXCEPT ![j] = FALSE]
    /\ UNCHANGED <<azVars, valVars, mainVars, remoteVars>>

(* ---------------- specification ---------------- *)

JobStep(j) ==
    \/ StartJob(j)
    \/ CheckVersionSet(j)
    \/ CreateVersionSet(j)
    \/ ImportAttempt(j)
    \/ UpdateApi(j)
    \/ WriteLedger(j)

Next ==
    \/ MainFind
    \/ MainSubmit
    \/ MainSubmitted
    \/ MainWait
    \/ MainSummary
    \/ Interrupt
    \/ MainShutdown
    \/ \E j \in Jobs : JobStep(j)

Spec == Init /\ [][Next]_vars

\* The steps of the main thread; the interrupt is an event of the
\* environment and not one of them
MainStep ==
    \/ MainFind
    \/ MainSubmit
    \/ MainSubmitted
    \/ MainWait
    \/ MainSummary
    \/ MainShutdown

\* One execution under fair scheduling.  The main thread and every worker
\* thread are operating-system threads: a thread that can take a step is
\* not suspended for ever, and a remote call, a sleep or a write that has
\* been issued returns.  A step of the main thread or of a job, once
\* enabled, stays enabled until it is taken (a queued job waits only for a
\* worker, and workers are released by jobs that finish), so weak fairness
\* is what the scheduling gives.  Nothing is assumed of the interrupt.
SpecFair ==
    /\ Init
    /\ [][Next]_vars
    /\ WF_vars(MainStep)
    /\ \A j \in Jobs : WF_vars(JobStep(j))

\* Two executions, each run to its end without an interrupt
NextTwice ==
    \/ MainFind
    \/ MainSubmit
    \/ MainSubmitted
    \/ MainWait
    \/ MainSummary
    \/ SecondRun
    \/ \E j \in Jobs : JobStep(j)

SpecTwice == Init /\ [][NextTwice]_vars

\* One execution whose first file holds any kind of document; the other
\* files are spec documents
InitDocs ==
    /\ api_files \in
          {f \in [1..NumFiles -> [base : BaseNames, kind : DocKinds]] :
              /\ f[1].base = "pet"
              /\ \A i \in 2..NumFiles : f[i].kind = "spec"}
    /\ run = "first"
    /\ main_pc = "find"
    /\ next_file = 1
    /\ futures = <<>>
    /\ cancelled = FALSE
    /\ exit_code = -1
    /\ results = [k \in BaseNames |-> 0]
    /\ ledger = <<>>
    /\ version_sets = [k \in BaseNames |-> 0]
    /\ apis = [k \in BaseNames |-> 0]
    /\ sets_before = [k \in BaseNames |-> 0]
    /\ pc = [j \in Jobs |-> "unsubmitted"]
    /\ retry_count = [j \in Jobs |-> 0]
    /\ success = [j \in Jobs |-> FALSE]
    /\ version_id = [j \in Jobs |-> "unset"]
    /\ pending = [j \in Jobs |-> NoLine]
    /\ pos = [j \in Jobs |-> 0]
    /\ resume = [j \in Jobs |-> "return"]
    /\ calls = [j \in Jobs |-> NoCalls]
    /\ create_error = [j \in Jobs |-> "none"]
    /\ raised = [j \in Jobs |-> FALSE]
    /\ outcome = [j \in Jobs |-> <<>>]
    /\ ValidatorOff
    /\ VersionSetScriptOff

SpecDocs == InitDocs /\ [][Next]_vars

(* ---------------- api-validator.py: the checks ---------------- *)

\* An entry of self.errors or self.warnings: the kind of message and the
\* values formatted into it
Err(kind) ==
    [kind |-> kind, method |-> "", path |-> Null, name |-> Null,
     method2 |-> "", path2 |-> Null, at |-> <<>>]
ErrAt(kind, method, path) == [Err(kind) EXCEPT !.method = method, !.path = path]
ErrName(kind, method, path, name) ==
    [Err(kind) EXCEPT !.method = method, !.path = path, !.name = name]

\* What one check has done when control leaves it: the messages it
\* appended, whether it left by an exception, and (check_operation_ids)
\* its operation_ids dictionary
R0 == [errors |-> <<>>, warnings |-> <<>>, raised |-> FALSE, seen |-> <<>>]
Raise(r) == [r EXCEPT !.raised = TRUE]
AddE(r, e) == [r EXCEPT !.errors = Append(@, e)]
AddW(r, w) == [r EXCEPT !.warnings = Append(@, w)]

\* lines 60, 83, 151, 196: the methods looked for in a path item
METHODS == <<"get", "post", "put", "delete", "patch">>

\* The iterations of `for path, path_item in paths.items(): for method in
\* [...]`, in order: (index of the path entry, index of the method)
Slots(paths) ==
    [n \in 1..(Len(paths.ch) * Len(METHODS)) |->
        <<((n - 1) \div Len(METHODS)) + 1, ((n - 1) % Len(METHODS)) + 1>>]

\* `if not self.spec.get('paths')` (lines 53, 76, 147, 173, 192): "raise"
\* when the document has no .get, "none" when paths is absent or falsy
PathsOf(doc) ==
    IF doc.t # "map" THEN "raise"
    ELSE IF ~Truthy(Get(doc, "paths", Null)) THEN "none"
    ELSE "some"

\* `if method not in path_item: continue; operation = path_item[method]`
\* (lines 61-64 and the like): "raise", "skip" or "op"
OperationOf(path_item, method) ==
    IF ~CanContain(path_item) THEN "raise"
    ELSE IF ~In(method, path_item) THEN "skip"
    ELSE IF path_item.t # "map" THEN "raise"
    ELSE "op"

\* lines 69-72 without line 72: the identifier is never remembered
OpIdStep_NoRecord(st, path, path_item, method) ==
    IF OperationOf(path_item, method) = "raise" THEN Raise(st)
    ELSE IF OperationOf(path_item, method) = "skip" THEN st
    ELSE LET operation == Item(path_item, method)
         IN  IF ~CanContain(operation) THEN Raise(st)
             ELSE IF ~In("operationId", operation)
               THEN AddE(st, ErrAt("Missing operationId", method, path))
             ELSE IF operation.t # "map" THEN Raise(st)
             ELSE st

\* lines 61-72: one method of one path item.  A dictionary key must be
\* hashable, so an operationId that is a mapping or a list raises.
OpIdStep(st, path, path_item, method) ==
    IF OperationOf(path_item, method) = "raise" THEN Raise(st)
    ELSE IF OperationOf(path_item, method) = "skip" THEN st
    ELSE LET operation == Item(path_item, method)
         IN  IF ~CanContain(operation) THEN Raise(st)
             ELSE IF ~In("operationId", operation)
               THEN AddE(st, ErrAt("Missing operationId", method, path))
             ELSE IF operation.t # "map" THEN Raise(st)
             ELSE LET op_id == Item(operation, "operationId")
                      first == {k \in 1..Len(st.seen) : st.seen[k].id = op_id}
                  IN  IF op_id.t \in {"map", "list"} THEN Raise(st)
                      ELSE IF first # {}
                        THEN LET f == st.seen[CHOOSE k \in first : TRUE]
                             IN  AddE(st,
                                   [Err("Duplicate operationId") EXCEPT
                                      !.name = op_id,
                                      !.method = method, !.path = path,
                                      !.method2 = f.method, !.path2 = f.path])
                      ELSE [st EXCEPT !.seen =
                              Append(@, [id |-> op_id, method |-> method,
                                         path |-> path])]

\* line 81: re.findall(r'{([^}]+)}', path) over the tokens of the path: a
\* "{", one or more tokens other than "}", and a "}"; matches do not
\* overlap
PathParams(toks) ==
    LET n == Len(toks)
        Close(i) ==
            IF \E j \in (i + 1)..n : toks[j] = "}"
              THEN CHOOSE j \in (i + 1)..n :
                      /\ toks[j] = "}"
                      /\ \A k \in (i + 1)..(j - 1) : toks[k] # "}"
              ELSE 0
        scan[i \in 1..(n + 1)] ==
            IF i > n THEN <<>>
            ELSE IF toks[i] = "{" /\ Close(i) > i + 1
              THEN <<StrTok(SubSeq(toks, i + 1, Close(i) - 1))>>
                     \o scan[Close(i) + 1]
            ELSE scan[i + 1]
    IN  scan[1]

\* `for item in x` raises TypeError unless x is iterable
CanIter(x) == x.t \in {"list", "map", "str"}

\* What `for item in x` yields: the elements of a list, the keys of a
\* mapping, the parts of a string
Elements(x) ==
    CASE x.t = "list" -> [i \in 1..Len(x.ch) |-> x.ch[i].v]
      [] x.t = "map" -> [i \in 1..Len(x.ch) |-> x.ch[i].k]
      [] OTHER -> [i \in 1..Len(x.s) |-> Str(x.s[i])]

Member(x, seq) == \E i \in 1..Len(seq) : seq[i] = x

\* lines 88-98: the operation's own parameters.  Gives the messages and
\* operation_params.
OperationParams(st, operation, method, path) ==
    IF ~CanContain(operation) THEN [st |-> Raise(st), ops |-> <<>>]
    ELSE IF ~In("parameters", operation) THEN [st |-> st, ops |-> <<>>]
    ELSE IF operation.t # "map" THEN [st |-> Raise(st), ops |-> <<>>]
    ELSE IF ~CanIter(Item(operation, "parameters"))
      THEN [st |-> Raise(st), ops |-> <<>>]
    ELSE LET el == Elements(Item(operation, "parameters"))
             go[n \in 0..Len(el)] ==
                 IF n = 0 THEN [st |-> st, ops |-> <<>>]
                 ELSE IF go[n - 1].st.raised THEN go[n - 1]
                 ELSE IF el[n].t # "map"
                   THEN [go[n - 1] EXCEPT !.st = Raise(@)]
                 ELSE IF Get(el[n], "in", Null) # Str("path") THEN go[n - 1]
                 ELSE [st |->
                         IF ~Truthy(Get(el[n], "required", Null))
                           THEN AddE(go[n - 1].st,
                                  ErrName("must have required=true", method,
                                          path, Get(el[n], "name", Null)))
                           ELSE go[n - 1].st,
                       ops |-> Append(go[n - 1].ops,
                                      Get(el[n], "name", Null))]
         IN  go[Len(el)]

\* lines 101-104: the path item's shared parameters that the operation
\* does not declare itself are added to operation_params
PathItemParams(acc, path_item) ==
    IF ~In("parameters", path_item) THEN acc
    ELSE IF ~CanIter(Item(path_item, "parameters"))
      THEN [acc EXCEPT !.st = Raise(@)]
    ELSE LET el == Elements(Item(path_item, "parameters"))
             go[n \in 0..Len(el)] ==
                 IF n = 0 THEN acc
                 ELSE IF go[n - 1].st.raised THEN go[n - 1]
                 ELSE IF el[n].t # "map"
                   THEN [go[n - 1] EXCEPT !.st = Raise(@)]
                 ELSE IF /\ Get(el[n], "in", Null) = Str("path")
                         /\ ~Member(Get(el[n], "name", Null), go[n - 1].ops)
                   THEN [go[n - 1] EXCEPT
                           !.ops = Append(@, Get(el[n], "name", Null))]
                 ELSE go[n - 1]
         IN  go[Len(el)]

\* lines 107-114: placeholders without a parameter, parameters without a
\* placeholder
TemplateErrors(st, ops, path_params, method, path) ==
    LET undefined == SelectSeq(path_params, LAMBDA x : ~Member(x, ops))
        extra == SelectSeq(ops, LAMBDA x : ~Member(x, path_params))
    IN  [st EXCEPT !.errors =
           @ \o [i \in 1..Len(undefined) |->
                   ErrName("is not defined in operation", method, path,
                           undefined[i])]
             \o [i \in 1..Len(extra) |->
                   ErrName("not found in path template", method, path,
                           extra[i])]]

\* lines 81-114: one method of one path item; re.findall raises TypeError
\* for a path key that is no string
PathParamStep(st, path, path_item, method) ==
    IF path.t # "str" THEN Raise(st)
    ELSE IF OperationOf(path_item, method) = "raise" THEN Raise(st)
    ELSE IF OperationOf(path_item, method) = "skip" THEN st
    ELSE LET own == OperationParams(st, Item(path_item, method), method, path)
             all == IF own.st.raised THEN own
                    ELSE PathItemParams(own, path_item)
         IN  IF all.st.raised THEN all.st
             ELSE TemplateErrors(all.st, all.ops, PathParams(path.s), method,
                                 path)

\* len(x) raises TypeError unless x is sized
Sized(x) == x.t \in {"map", "list", "str"}
PyLen(x) == IF x.t = "str" THEN Len(x.s) ELSE Len(x.ch)

\* lines 133-135: one flow of an oauth2 scheme
FlowStep(st, flow_name, flow) ==
    IF flow.t # "map" THEN Raise(st)
    ELSE IF ~Truthy(Get(flow, "scopes", Null)) THEN st
    ELSE IF ~Sized(Item(flow, "scopes")) THEN Raise(st)
    ELSE IF PyLen(Item(flow, "scopes")) > 10
      THEN AddW(st, ErrName("Large number of scopes", "", Null, flow_name))
    ELSE st

\* lines 122-135: one security scheme
SchemeStep(st, name, scheme) ==
    IF scheme.t # "map" THEN Raise(st)
    ELSE LET st1 == IF ~Truthy(Get(scheme, "type", Null))
                      THEN AddE(st, ErrName("Security scheme is missing a type",
                                            "", Null, name))
                      ELSE st
             flows == Get(scheme, "flows", Null)
         IN  IF Get(scheme, "type", Null) # Str("oauth2") THEN st1
             ELSE IF Truthy(flows) /\ ~Sized(flows) THEN Raise(st1)
             ELSE LET st2 == IF Truthy(flows) /\ PyLen(flows) > 1
                               THEN AddW(st1, ErrName("Multiple OAuth2 flows",
                                                      "", Null, name))
                               ELSE st1
                      fl == Get(scheme, "flows", Map(<<>>))
                      go[n \in 0..Len(fl.ch)] ==
                          IF n = 0 THEN st2
                          ELSE IF go[n - 1].raised THEN go[n - 1]
                          ELSE FlowStep(go[n - 1], fl.ch[n].k, fl.ch[n].v)
                  IN  IF fl.t # "map" THEN Raise(st2)
                      ELSE go[Len(fl.ch)]

\* lines 116-135
check_security_definitions(doc) ==
    IF doc.t # "map" THEN Raise(R0)
    ELSE IF ~Truthy(Get(doc, "components", Null)) THEN R0
    ELSE IF Item(doc, "components").t # "map" THEN Raise(R0)
    ELSE IF ~Truthy(Get(Item(doc, "components"), "securitySchemes", Null))
      THEN R0
    ELSE LET schemes == Item(Item(doc, "components"), "securitySchemes")
             go[n \in 0..Len(schemes.ch)] ==
                 IF n = 0 THEN R0
                 ELSE IF go[n - 1].raised THEN go[n - 1]
                 ELSE SchemeStep(go[n - 1], schemes.ch[n].k, schemes.ch[n].v)
         IN  IF schemes.t # "map" THEN Raise(R0)
             ELSE go[Len(schemes.ch)]

\* lines 139-145
supported_types ==
    {"application/json", "application/xml", "text/plain",
     "multipart/form-data", "application/x-www-form-urlencoded"}

\* lines 158-161 and 166-169: `'content' in body`, then a warning for
\* every key of body['content'] that is not a supported type
BodyWarnings(st, body, method, path, where) ==
    IF ~CanContain(body) THEN Raise(st)
    ELSE IF ~In("content", body) THEN st
    ELSE IF body.t # "map" THEN Raise(st)
    ELSE IF Item(body, "content").t # "map" THEN Raise(st)
    ELSE LET keys == Elements(Item(body, "content"))
             odd == SelectSeq(keys, LAMBDA k :
                        ~(k.t = "str" /\ Len(k.s) = 1
                            /\ k.s[1] \in supported_types))
         IN  [st EXCEPT !.warnings =
                @ \o [i \in 1..Len(odd) |->
                        ErrName(where, method, path, odd[i])]]

\* lines 152-169: one method of one path item
ContentStep(st, path, path_item, method) ==
    IF OperationOf(path_item, method) = "raise" THEN Raise(st)
    ELSE IF OperationOf(path_item, method) = "skip" THEN st
    ELSE LET operation == Item(path_item, method)
             st1 == IF ~In("requestBody", operation) THEN st
                    ELSE IF operation.t # "map" THEN Raise(st)
                    ELSE BodyWarnings(st, Item(operation, "requestBody"),
                                      method, path,
                                      "Content type in request body")
         IN  IF ~CanContain(operation) THEN Raise(st)
             ELSE IF st1.raised THEN st1
             ELSE IF ~In("responses", operation) THEN st1
             ELSE IF operation.t # "map" THEN Raise(st1)
             ELSE IF Item(operation, "responses").t # "map" THEN Raise(st1)
             ELSE LET rs == Item(operation, "responses").ch
                      go[n \in 0..Len(rs)] ==
                          IF n = 0 THEN st1
                          ELSE IF go[n - 1].raised THEN go[n - 1]
                          ELSE BodyWarnings(go[n - 1], rs[n].v, method, path,
                                            "Content type in response")
                  IN  go[Len(rs)]

\* lines 171-178: path.endswith raises for a key that is no string
check_path_trailing_slashes(doc) ==
    CASE PathsOf(doc) = "raise" -> Raise(R0)
      [] PathsOf(doc) = "none" -> R0
      [] OTHER ->
           LET paths == Item(doc, "paths")
               go[n \in 0..Len(paths.ch)] ==
                   IF n = 0 THEN R0
                   ELSE IF go[n - 1].raised THEN go[n - 1]
                   ELSE IF paths.ch[n].k = Str("/") THEN go[n - 1]
                   ELSE IF paths.ch[n].k.t # "str" THEN Raise(go[n - 1])
                   ELSE IF EndsWith(paths.ch[n].k, <<"/">>)
                     THEN AddE(go[n - 1],
                               ErrAt("ends with a trailing slash", "",
                                     paths.ch[n].k))
                   ELSE go[n - 1]
           IN  IF paths.t # "map" THEN Raise(R0)
               ELSE go[Len(paths.ch)]

\* check_servers with `'servers' not in self.spec` as the test
check_servers_AbsentOnly(doc) ==
    IF doc.t # "map" THEN Raise(R0)
    ELSE IF Get(doc, "openapi", StrTok(<<>>)).t # "str" THEN Raise(R0)
    ELSE LET st1 == IF /\ StartsWith(Get(doc, "openapi", StrTok(<<>>)),
                                     <<"3", ".">>)
                       /\ ~In("servers", doc)
                      THEN AddE(R0, Err("No servers defined"))
                      ELSE R0
         IN  IF Get(doc, "swagger", StrTok(<<>>)).t # "str" THEN Raise(st1)
             ELSE IF /\ StartsWith(Get(doc, "swagger", StrTok(<<>>)),
                                   <<"2", ".">>)
                     /\ ~(Truthy(Get(doc, "host", Null))
                            \/ Truthy(Get(doc, "basePath", Null)))
               THEN AddE(st1, Err("No host or basePath defined"))
             ELSE st1

\* lines 180-188: .get('openapi', '') must give a string for .startswith;
\* `not self.spec.get('servers')` holds for an absent key and for any falsy
\* value (null, an empty list)
check_servers(doc) ==
    IF doc.t # "map" THEN Raise(R0)
    ELSE IF Get(doc, "openapi", StrTok(<<>>)).t # "str" THEN Raise(R0)
    ELSE LET st1 == IF /\ StartsWith(Get(doc, "openapi", StrTok(<<>>)),
                                     <<"3", ".">>)
                       /\ ~Truthy(Get(doc, "servers", Null))
                      THEN AddE(R0, Err("No servers defined"))
                      ELSE R0
         IN  IF Get(doc, "swagger", StrTok(<<>>)).t # "str" THEN Raise(st1)
             ELSE IF /\ StartsWith(Get(doc, "swagger", StrTok(<<>>)),
                                   <<"2", ".">>)
                     /\ ~(Truthy(Get(doc, "host", Null))
                            \/ Truthy(Get(doc, "basePath", Null)))
               THEN AddE(st1, Err("No host or basePath defined"))
             ELSE st1

\* lines 207-214: one status of an operation's responses; status.startswith
\* raises for a key that is no string
StatusStep(acc, status, response, method, path) ==
    IF status.t # "str" THEN [acc EXCEPT !.st = Raise(@)]
    ELSE IF ~(StartsWith(status, <<"2">>) \/ StartsWith(status, <<"3">>))
      THEN acc
    ELSE [st |->
            IF \/ ~Truthy(response)
               \/ (response.t = "map"
                     /\ ~Truthy(Get(response, "description", Null)))
              THEN AddE(acc.st, ErrName("Empty success response definition",
                                        method, path, status))
              ELSE acc.st,
          has_success |-> TRUE]

\* lines 197-217: one method of one path item
ResponseStep(st, path, path_item, method) ==
    IF OperationOf(path_item, method) = "raise" THEN Raise(st)
    ELSE IF OperationOf(path_item, method) = "skip" THEN st
    ELSE LET operation == Item(path_item, method)
         IN  IF ~CanContain(operation) THEN Raise(st)
             ELSE IF ~In("responses", operation)
               THEN AddE(st, ErrAt("No responses defined", method, path))
             ELSE IF operation.t # "map" THEN Raise(st)
             ELSE IF Item(operation, "responses").t # "map" THEN Raise(st)
             ELSE LET rs == Item(operation, "responses").ch
                      go[n \in 0..Len(rs)] ==
                          IF n = 0 THEN [st |-> st, has_success |-> FALSE]
                          ELSE IF go[n - 1].st.raised THEN go[n - 1]
                          ELSE StatusStep(go[n - 1], rs[n].k, rs[n].v,
                                          method, path)
                      end == go[Len(rs)]
                  IN  IF end.st.raised \/ end.has_success THEN end.st
                      ELSE AddE(end.st,
                                ErrAt("No success response", method, path))

\* The loop body of the check of this name
StepOf(check, st, path, path_item, method) ==
    CASE check = "check_operation_ids" -> OpIdStep(st, path, path_item, method)
      [] check = "check_path_parameters" ->
           PathParamStep(st, path, path_item, method)
      [] check = "check_content_types" ->
           ContentStep(st, path, path_item, method)
      [] OTHER -> ResponseStep(st, path, path_item, method)

\* The double loop of a check: its loop body for every slot, until one
\* raises
Loop(check, paths, st0) ==
    LET slots == Slots(paths)
        go[n \in 0..Len(slots)] ==
            IF n = 0 THEN st0
            ELSE IF go[n - 1].raised THEN go[n - 1]
            ELSE StepOf(check, go[n - 1], paths.ch[slots[n][1]].k,
                        paths.ch[slots[n][1]].v, METHODS[slots[n][2]])
    IN  go[Len(slots)]

\* lines 51-72
check_operation_ids(doc) ==
    CASE PathsOf(doc) = "raise" -> Raise(R0)
      [] PathsOf(doc) = "none" -> AddE(R0, Err("No paths defined"))
      [] OTHER ->
           IF Item(doc, "paths").t # "map" THEN Raise(R0)
           ELSE Loop("check_operation_ids", Item(doc, "paths"), R0)

\* lines 74-114
check_path_parameters(doc) ==
    CASE PathsOf(doc) = "raise" -> Raise(R0)
      [] PathsOf(doc) = "none" -> R0
      [] OTHER ->
           IF Item(doc, "paths").t # "map" THEN Raise(R0)
           ELSE Loop("check_path_parameters", Item(doc, "paths"), R0)

\* lines 137-169
check_content_types(doc) ==
    CASE PathsOf(doc) = "raise" -> Raise(R0)
      [] PathsOf(doc) = "none" -> R0
      [] OTHER ->
           IF Item(doc, "paths").t # "map" THEN Raise(R0)
           ELSE Loop("check_content_types", Item(doc, "paths"), R0)

\* lines 190-217
check_response_definitions(doc) ==
    CASE PathsOf(doc) = "raise" -> Raise(R0)
      [] PathsOf(doc) = "none" -> R0
      [] OTHER ->
           IF Item(doc, "paths").t # "map" THEN Raise(R0)
           ELSE Loop("check_response_definitions", Item(doc, "paths"), R0)

RECURSIVE check_object_SkipsLists(_, _)
RECURSIVE check_object(_, _)

\* check_object without its `elif isinstance(obj, list)` branch
check_object_SkipsLists(obj, path) ==
    IF obj.t = "map"
      THEN LET own == IF In("$ref", obj) /\ Len(obj.ch) > 1
                        THEN <<[Err("$ref with siblings") EXCEPT !.at = path]>>
                        ELSE <<>>
               below[n \in 0..Len(obj.ch)] ==
                   IF n = 0 THEN <<>>
                   ELSE below[n - 1] \o
                        check_object_SkipsLists(obj.ch[n].v,
                            Append(path, [key |-> obj.ch[n].k, idx |-> -1]))
           IN  own \o below[Len(obj.ch)]
    ELSE <<>>

\* lines 221-230: the messages appended for obj and everything below it;
\* path is the sequence of keys and list indices that leads to obj
check_object(obj, path) ==
    IF obj.t = "map"
      THEN LET own == IF In("$ref", obj) /\ Len(obj.ch) > 1
                        THEN <<[Err("$ref with siblings") EXCEPT !.at = path]>>
                        ELSE <<>>
               below[n \in 0..Len(obj.ch)] ==
                   IF n = 0 THEN <<>>
                   ELSE below[n - 1] \o
                        check_object(obj.ch[n].v,
                            Append(path, [key |-> obj.ch[n].k, idx |-> -1]))
           IN  own \o below[Len(obj.ch)]
    ELSE IF obj.t = "list"
      THEN LET below[n \in 0..Len(obj.ch)] ==
                   IF n = 0 THEN <<>>
                   ELSE below[n - 1] \o
                        check_object(obj.ch[n].v,
                            Append(path, [key |-> Null, idx |-> n - 1]))
           IN  below[Len(obj.ch)]
    ELSE <<>>

\* lines 219-232
check_ref_siblings(doc) == [R0 EXCEPT !.errors = check_object(doc, <<>>)]

(* ---------------- api-validator.py: the documents validated ---------------- *)

\* Depth of the trees put under an extension key of a document
TreeDepth == 2

Text3 == StrTok(<<"3", ".", "0", ".", "0">>)
Text2 == StrTok(<<"2", ".", "0">>)
Status(toks) == StrTok(toks)
OneServer == List(<<Map(<<KV("url", Str("https://api.example"))>>)>>)
Described == Map(<<KV("description", Str("ok"))>>)
GoodResponses == Map(<<[k |-> Status(<<"2", "0", "0">>), v |-> Described]>>)
GoodOperation ==
    Map(<<KV("operationId", Str("listItems")), KV("responses", GoodResponses)>>)
PathA == StrTok(<<"/", "a">>)
PathB == StrTok(<<"/", "b">>)
GoodPaths == Map(<<[k |-> PathA, v |-> Map(<<KV("get", GoodOperation)>>)]>>)

\* An OpenAPI 3.0 document with one server and the given paths
Doc(paths) ==
    Map(<<KV("openapi", Text3), KV("servers", OneServer), KV("paths", paths)>>)

Opt(key, present, v) == IF present THEN <<KV(key, v)>> ELSE <<>>

\* Documents for the operationId check: a path with a get and a head, a
\* path with a get and a post; every operation is absent, has no
\* operationId, or has one of three identifiers
OpSlots == {"a.get", "a.head", "b.get", "b.post"}
OpChoices == {"none", "noid", "x", "y", "z"}
OpWith(c) ==
    Map(Opt("operationId", c # "noid", Str(c)) \o
        <<KV("responses", GoodResponses)>>)
OpsDoc(f) ==
    Doc(Map(<<
        [k |-> PathA,
         v |-> Map(Opt("get", f["a.get"] # "none", OpWith(f["a.get"])) \o
                   Opt("head", f["a.head"] # "none", OpWith(f["a.head"])))],
        [k |-> PathB,
         v |-> Map(Opt("get", f["b.get"] # "none", OpWith(f["b.get"])) \o
                   Opt("post", f["b.post"] # "none", OpWith(f["b.post"])))]>>))
OpsDocs == {OpsDoc(f) : f \in [OpSlots -> OpChoices]}

\* Documents for the path-parameter check: one path with or without the
\* placeholder {id}, one get operation; the path item and the operation
\* each declare no parameter or one parameter
ParamChoices ==
    {[declared |-> FALSE, name |-> "id", in |-> "path", required |-> "absent"]}
    \cup [declared : {TRUE}, name : {"id", "other"}, in : {"path", "query"},
          required : {"absent", "false", "true"}]
ParamList(c) ==
    List(<<Map(<<KV("name", Str(c.name)), KV("in", Str(c.in))>> \o
               Opt("required", c.required # "absent",
                   Bool(c.required = "true")))>>)
ParamsDoc(template, shared, own) ==
    Doc(Map(<<
        [k |-> template,
         v |-> Map(Opt("parameters", shared.declared, ParamList(shared)) \o
                   <<KV("get",
                        Map(<<KV("operationId", Str("getItem"))>> \o
                            Opt("parameters", own.declared, ParamList(own)) \o
                            <<KV("responses", GoodResponses)>>))>>)]>>))
ParamsDocs ==
    {ParamsDoc(t, shared, own) :
        t \in {StrTok(<<"/", "items", "/", "{", "id", "}">>),
               StrTok(<<"/", "items">>)},
        shared \in ParamChoices, own \in ParamChoices}

\* Documents for the server check: the version tags and the server, host
\* declarations present, absent, empty or of another type
ServersDocs ==
    {Map(Opt("openapi", o # "absent",
             CASE o = "3" -> Text3
               [] o = "2" -> Text2
               [] o = "float" -> FloatTok(<<"3", ".", "0">>)
               [] OTHER -> Null) \o
         Opt("swagger", w, Text2) \o
         Opt("servers", s # "absent",
             CASE s = "one" -> OneServer
               [] s = "empty" -> List(<<>>)
               [] OTHER -> Null) \o
         Opt("host", h, Str("api.example")) \o
         <<KV("paths", GoodPaths)>>) :
        o \in {"absent", "3", "2", "float", "null"},
        s \in {"absent", "one", "empty", "null"},
        w \in BOOLEAN, h \in BOOLEAN}

\* Documents of other shapes
OnePath(path, item) == Doc(Map(<<[k |-> path, v |-> item]>>))
OneOperation(op) == OnePath(PathA, Map(<<KV("get", op)>>))
WithResponses(rs) ==
    OneOperation(Map(<<KV("operationId", Str("listItems")),
                       KV("responses", rs)>>))
ShapeDocs ==
    {Null, Map(<<>>), List(<<Str("x")>>), Str("text"), Bool(TRUE),
     Doc(GoodPaths),
     Doc(Null),
     Doc(List(<<Str("/a")>>)),
     OnePath(PathA, Null),
     OnePath(PathA, Str("get")),
     OnePath(StrTok(<<"/", "a", "/">>), Map(<<KV("get", GoodOperation)>>)),
     OnePath(StrTok(<<"/">>), Map(<<KV("get", GoodOperation)>>)),
     OnePath(IntTok(<<"1">>), Map(<<KV("get", GoodOperation)>>)),
     OneOperation(Null),
     OneOperation(Str("operationId")),
     OneOperation(Map(<<KV("operationId", List(<<Str("x")>>)),
                        KV("responses", GoodResponses)>>)),
     OneOperation(Map(<<KV("operationId", Str("listItems"))>>)),
     OneOperation(Map(<<KV("operationId", Str("listItems")),
                        KV("parameters", Null),
                        KV("responses", GoodResponses)>>)),
     OneOperation(Map(<<KV("operationId", Str("listItems")),
                        KV("requestBody",
                           Map(<<KV("content",
                                    Map(<<KV("application/pdf", Map(<<>>))>>))>>)),
                        KV("responses", GoodResponses)>>)),
     WithResponses(Null),
     WithResponses(Map(<<[k |-> IntTok(<<"2", "0", "0">>), v |-> Described]>>)),
     WithResponses(Map(<<[k |-> Status(<<"2", "0", "0">>), v |-> Null]>>)),
     WithResponses(Map(<<[k |-> Status(<<"2", "0", "0">>), v |-> Map(<<>>)]>>)),
     WithResponses(Map(<<[k |-> Status(<<"2", "0", "0">>), v |-> Str("ok")]>>)),
     WithResponses(Map(<<[k |-> Status(<<"4", "0", "4">>), v |-> Described]>>)),
     WithResponses(Map(<<[k |-> Status(<<"2", "0", "0">>),
                          v |-> Map(<<KV("description", Str("ok")),
                                      KV("content",
                                         Map(<<KV("application/pdf",
                                                  Map(<<>>))>>))>>)]>>)),
     Map(<<KV("openapi", Text3), KV("servers", OneServer),
           KV("paths", GoodPaths),
           KV("components",
              Map(<<KV("securitySchemes",
                       Map(<<KV("key", Map(<<KV("in", Str("header"))>>)),
                             KV("oauth",
                                Map(<<KV("type", Str("oauth2")),
                                      KV("flows",
                                         Map(<<KV("implicit", Map(<<>>)),
                                               KV("password",
                                                  Map(<<>>))>>))>>))>>))>>))>>),
     Map(<<KV("openapi", Text3), KV("servers", OneServer),
           KV("paths", GoodPaths), KV("components", List(<<Str("x")>>))>>)}

\* Trees of mappings over the keys $ref and d and of lists, down to
\* TreeDepth levels
Absent == [t |-> "absent", s |-> <<>>, ch |-> <<>>]
RECURSIVE Trees(_)
Trees(d) ==
    IF d = 0 THEN {Str("v")}
    ELSE LET T == Trees(d - 1)
         IN  {Str("v")}
             \cup {Map(Opt("$ref", r # Absent, r) \o Opt("d", c # Absent, c)) :
                     r \in T \cup {Absent}, c \in T \cup {Absent}}
             \cup {List(<<>>)}
             \cup {List(<<a>>) : a \in T}
             \cup {List(<<Str("v"), a>>) : a \in T}

\* Documents for the $ref check: a tree under an extension key
RefDocs ==
    {Map(<<KV("openapi", Text3), KV("servers", OneServer),
           KV("paths", GoodPaths), KV("x-data", tree)>>) :
        tree \in Trees(TreeDepth)}

\* The files given to the validator: one that cannot be loaded, and the
\* documents above
SpecFiles ==
    {[parses |-> FALSE, value |-> Null]}
    \cup {[parses |-> TRUE, value |-> d] :
            d \in OpsDocs \cup ParamsDocs \cup ServersDocs \cup ShapeDocs
                  \cup RefDocs}

(* ---------------- api-validator.py: main for one specification ---------------- *)

\* The orchestrator's variables while the validator runs
OrchestratorOff ==
    /\ api_files = <<>>
    /\ run = "first"
    /\ main_pc = "off"
    /\ next_file = 1
    /\ futures = <<>>
    /\ cancelled = FALSE
    /\ exit_code = -1
    /\ results = [k \in BaseNames |-> 0]
    /\ ledger = <<>>
    /\ version_sets = [k \in BaseNames |-> 0]
    /\ apis = [k \in BaseNames |-> 0]
    /\ sets_before = [k \in BaseNames |-> 0]
    /\ pc = [j \in Jobs |-> "unsubmitted"]
    /\ retry_count = [j \in Jobs |-> 0]
    /\ success = [j \in Jobs |-> FALSE]
    /\ version_id = [j \in Jobs |-> "unset"]
    /\ pending = [j \in Jobs |-> NoLine]
    /\ pos = [j \in Jobs |-> 0]
    /\ resume = [j \in Jobs |-> "return"]
    /\ calls = [j \in Jobs |-> NoCalls]
    /\ create_error = [j \in Jobs |-> "none"]
    /\ raised = [j \in Jobs |-> FALSE]
    /\ outcome = [j \in Jobs |-> <<>>]

orchVars == <<mainVars, ledger, remoteVars, pc, localVars, outcome>>

\* main is called with the path of one file (lines 383-394)
ValidatorInit ==
    /\ OrchestratorOff
    /\ VersionSetScriptOff
    /\ spec_file \in SpecFiles
    /\ spec = Null
    /\ errors = <<>>
    /\ warnings = <<>>
    /\ v_pc = "construct"
    /\ is_valid = "unset"
    /\ spec_valid = "unset"
    /\ v_exit = -1

\* lines 17-32: ApiValidator(spec_path)
Construct ==
    /\ v_pc = "construct"
    /\ IF spec_file.parses
         THEN spec' = spec_file.value /\ errors' = <<>>
         ELSE spec' = Null /\ errors' = <<Err("Failed to load specification")>>
    /\ warnings' = <<>>
    /\ v_pc' = "validate"
    /\ UNCHANGED <<azVars, orchVars, spec_file, is_valid, spec_valid, v_exit>>

\* lines 36-37: validate() returns False when self.spec is falsy
ValidateEnter ==
    /\ v_pc = "validate"
    /\ IF ~Truthy(spec)
         THEN is_valid' = "False" /\ v_pc' = "spectral"
         ELSE is_valid' = is_valid /\ v_pc' = "check_operation_ids"
    /\ UNCHANGED <<azVars, orchVars, spec_file, spec, errors, warnings, spec_valid,
                   v_exit>>

\* One check of validate (lines 40-47): its messages are appended; an
\* exception leaves validate and main, and the interpreter exits with 1
RunCheck(name, r, next) ==
    /\ v_pc = name
    /\ errors' = errors \o r.errors
    /\ warnings' = warnings \o r.warnings
    /\ IF r.raised
         THEN v_pc' = "raised" /\ v_exit' = 1
         ELSE v_pc' = next /\ v_exit' = v_exit
    /\ UNCHANGED <<azVars, orchVars, spec_file, spec, spec_valid>>

CheckOperationIds ==
    /\ RunCheck("check_operation_ids", check_operation_ids(spec),
                "check_path_parameters")
    /\ UNCHANGED is_valid

CheckPathParameters ==
    /\ RunCheck("check_path_parameters", check_path_parameters(spec),
                "check_security_definitions")
    /\ UNCHANGED is_valid

CheckSecurityDefinitions ==
    /\ RunCheck("check_security_definitions",
                check_security_definitions(spec), "check_content_types")
    /\ UNCHANGED is_valid

CheckContentTypes ==
    /\ RunCheck("check_content_types", check_content_types(spec),
                "check_path_trailing_slashes")
    /\ UNCHANGED is_valid

CheckPathTrailingSlashes ==
    /\ RunCheck("check_path_trailing_slashes",
                check_path_trailing_slashes(spec), "check_servers")
    /\ UNCHANGED is_valid

CheckServers ==
    /\ RunCheck("check_servers", check_servers(spec),
                "check_response_definitions")
    /\ UNCHANGED is_valid

CheckResponseDefinitions ==
    /\ RunCheck("check_response_definitions",
                check_response_definitions(spec), "check_ref_siblings")
    /\ UNCHANGED is_valid

\* lines 47-49: the last check, then `return len(self.errors) == 0`
CheckRefSiblings ==
    /\ RunCheck("check_ref_siblings", check_ref_siblings(spec), "spectral")
    /\ is_valid' = IF errors' = <<>> THEN "True" ELSE "False"

\* lines 234-257: Spectral is not installed, finds nothing, or reports
\* lines with "error" and lines with "warning"
SpectralOutcomes == {"unavailable", "clean", "errors", "warnings"}

RunSpectral ==
    /\ v_pc = "spectral"
    /\ \E out \in SpectralOutcomes :
         /\ errors' = IF out = "errors" THEN Append(errors, Err("Spectral"))
                      ELSE errors
         /\ warnings' = IF out = "warnings"
                          THEN Append(warnings, Err("Spectral"))
                          ELSE warnings
    /\ v_pc' = "report"
    /\ UNCHANGED <<azVars, orchVars, spec_file, spec, is_valid, spec_valid, v_exit>>

\* lines 259-275
report(errs, warns) ==
    IF errs = <<>> /\ warns = <<>> THEN "True"
    ELSE IF Len(errs) = 0 THEN "True" ELSE "False"

Report ==
    /\ v_pc = "report"
    /\ spec_valid' = report(errors, warnings)
    /\ v_pc' = "exit"
    /\ UNCHANGED <<azVars, orchVars, spec_file, spec, errors, warnings, is_valid,
                   v_exit>>

\* lines 410-414, 418: all_valid = all_valid and spec_valid; sys.exit
MainReturn ==
    /\ v_pc = "exit"
    /\ v_exit' = IF spec_valid = "True" THEN 0 ELSE 1
    /\ v_pc' = "exited"
    /\ UNCHANGED <<azVars, orchVars, spec_file, spec, errors, warnings, is_valid,
                   spec_valid>>

ValidatorNext ==
    \/ Construct
    \/ ValidateEnter
    \/ CheckOperationIds
    \/ CheckPathParameters
    \/ CheckSecurityDefinitions
    \/ CheckContentTypes
    \/ CheckPathTrailingSlashes
    \/ CheckServers
    \/ CheckResponseDefinitions
    \/ CheckRefSiblings
    \/ RunSpectral
    \/ Report
    \/ MainReturn

SpecValidator == ValidatorInit /\ [][ValidatorNext]_vars

(* ---------------- apiazure.py: the version-set script ---------------- *)

\* The script is run in a directory whose ./openapi/ holds some files
VersionSetInit ==
    /\ OrchestratorOff
    /\ ValidatorOff
    /\ listing \in Listings
    /\ files = {}
    /\ vSets = {}
    /\ todo = {}
    /\ az_pc = "main"
    /\ cv_calls = [k \in Keys |-> 0]
    /\ tokens = 0
    /\ puts = [k \in Keys |-> 0]
    /\ az_exit = -1

\* lines 49-54, 57-59: list the directory, keep the names that match, and
\* build the set of keys; with no matching name print and sys.exit(1)
ListFiles ==
    /\ az_pc = "main"
    /\ files' = {f \in listing : Match(f)}
    /\ IF files' # {}
         THEN /\ vSets' = {Key(f) : f \in files'}
              /\ todo' = vSets'
              /\ az_pc' = "loop"
              /\ az_exit' = az_exit
         ELSE /\ vSets' = vSets
              /\ todo' = todo
              /\ az_pc' = "exited"
              /\ az_exit' = 1
    /\ UNCHANGED <<orchVars, valVars, listing, cv_calls, tokens, puts>>

\* What the token endpoint does: answers 200, answers another status, or
\* the request raises (no connection)
TokenResponses == {"200", "refused", "raises"}

\* What the PUT of the version set does: 200, 201, another status, or the
\* request raises
PutResponses == {"200", "201", "error", "raises"}

\* lines 55-56 and 35-46: one iteration of `for vSet in vSets`, in the
\* order the set gives.  createOrUpdateVersionSet(vSet) first asks for a
\* token: a status other than 200 is sys.exit(1) (lines 28-33), and an
\* exception of requests is caught nowhere; both end the script with
\* status 1 inside the loop.  With a token the PUT is sent; its status is
\* printed only (lines 43-46).
CreateOrUpdateVersionSet ==
    /\ az_pc = "loop"
    /\ \E vSet \in todo :
         /\ todo' = todo \ {vSet}
         /\ cv_calls' = [cv_calls EXCEPT ![vSet] = @ + 1]
         /\ tokens' = tokens + 1
         /\ \E token \in TokenResponses :
              IF token # "200"
                THEN /\ az_pc' = "exited"
                     /\ az_exit' = 1
                     /\ puts' = puts
                ELSE /\ puts' = [puts EXCEPT ![vSet] = @ + 1]
                     /\ \E put \in PutResponses :
                          IF put = "raises"
                            THEN az_pc' = "exited" /\ az_exit' = 1
                            ELSE az_pc' = "loop" /\ az_exit' = az_exit
    /\ UNCHANGED <<orchVars, valVars, listing, files, vSets>>

\* lines 55, 61-62: the loop is exhausted, main returns None and the
\* interpreter exits with status 0
LoopEnd ==
    /\ az_pc = "loop"
    /\ todo = {}
    /\ az_pc' = "returned"
    /\ az_exit' = 0
    /\ UNCHANGED <<orchVars, valVars, listing, files, vSets, todo, cv_calls,
                   tokens, puts>>

VersionSetNext ==
    \/ ListFiles
    \/ CreateOrUpdateVersionSet
    \/ LoopEnd

SpecVersionSets == VersionSetInit /\ [][VersionSetNext]_vars

(* ---------------- properties ---------------- *)

Codes == {200, 400, 500}

Scheduled == Submitted

Line(j, code) == [id |-> ApiId(j), code |-> code]

\* C1: every job that has returned has appended exactly one line, keyed by
\* its API identifier and carrying 200, 400 or 500; no job ever appends a
\* second line.
C1_ExactlyOneOutcome ==
    \A j \in Scheduled :
        /\ Len(outcome[j]) <= 1
        /\ pc[j] = "done" =>
              /\ Len(outcome[j]) = 1
              /\ outcome[j][1].id = ApiId(j)
              /\ outcome[j][1].code \in Codes
        /\ pc[j] # "done" => outcome[j] = <<>>

\* C1 witness: three jobs have returned, one on each of the paths ending
\* in 200, 400 and 500.
C1_Witness ==
    \E i, j, k \in Scheduled :
        /\ pc[i] = "done" /\ outcome[i] = <<Line(i, 200)>>
        /\ pc[j] = "done" /\ outcome[j] = <<Line(j, 400)>>
        /\ pc[k] = "done" /\ outcome[k] = <<Line(k, 500)>>

\* C2: when more jobs than workers were scheduled and the pool has
\* drained, the ledger holds exactly one line per scheduled job.
C2_LedgerHoldsEveryOutcome ==
    (main_pc = "summary" /\ Len(futures) > PoolSize) =>
        /\ Len(ledger) = Len(futures)
        /\ \A j \in Scheduled :
              \E i \in 1..Len(ledger) : ledger[i] = outcome[j][1]

\* C3: two jobs with the same version-set key never both issue a creation
\* call for it.
C3_CreateMutuallyExclusive ==
    \A i, j \in Scheduled :
        (i # j /\ ApiId(i) = ApiId(j)) =>
            ~(calls[i].create > 0 /\ calls[j].create > 0)

\* C4: a creation call that fails because the version set already exists
\* is treated as success: the job does not write 500 for it.
C4_AlreadyExistsIsSuccess ==
    \A j \in Scheduled :
        create_error[j] = "exists" => pending[j].code # 500

\* C5: an import that fails on every attempt is attempted exactly
\* MAX_RETRIES times with MAX_RETRIES - 1 sleeps of BACKOFF, the metadata
\* update is never called, and 400 is written under the job's API id.
C5_ExhaustedRetries ==
    \A j \in Scheduled :
        /\ retry_count[j] <= MAX_RETRIES
        /\ (pc[j] = "import" /\ ~success[j]) =>
              /\ calls[j].import = retry_count[j]
              /\ calls[j].sleep = retry_count[j]
        /\ retry_count[j] = MAX_RETRIES =>
              /\ pc[j] = "write"
              /\ pending[j] = Line(j, 400)
              /\ calls[j].import = MAX_RETRIES
              /\ calls[j].sleep = MAX_RETRIES - 1
              /\ calls[j].slept = BACKOFF * (MAX_RETRIES - 1)
              /\ calls[j].get = 0
              /\ calls[j].update = 0
        /\ pending[j].code = 400 => retry_count[j] = MAX_RETRIES

\* C5 witness: a job is writing 400 after its last failed attempt.
C5_Witness ==
    \E j \in Scheduled :
        /\ pc[j] = "write"
        /\ pending[j].code = 400
        /\ calls[j].import = MAX_RETRIES

\* C6: an import that succeeds after k failures has made k + 1 attempts
\* and k sleeps, is never attempted again, and is followed by the metadata
\* update.
C6_SuccessShortCircuits ==
    \A j \in Scheduled :
        success[j] =>
            /\ pc[j] \in {"update", "write"}
            /\ retry_count[j] < MAX_RETRIES
            /\ calls[j].import = retry_count[j] + 1
            /\ calls[j].sleep = retry_count[j]
            /\ calls[j].slept = BACKOFF * retry_count[j]
            /\ pc[j] = "write" =>
                  /\ calls[j].get = 1
                  /\ pending[j].code \in {200, 500}
                  /\ pending[j].code = 200 => calls[j].update = 1

\* C6 witness: two failed attempts, a third that succeeded, two sleeps,
\* and 200 about to be written.
C6_Witness ==
    \E j \in Scheduled :
        /\ pc[j] = "write"
        /\ pending[j].code = 200
        /\ retry_count[j] = 2
        /\ calls[j].import = 3
        /\ calls[j].sleep = 2

\* C7: main returns 0 only if every line of the ledger carries 200.
C7_ExitZeroIffAllSucceeded ==
    (main_pc = "returned" /\ exit_code = 0) =>
        \A i \in 1..Len(ledger) : ledger[i].code = 200

\* C8: an exception in a job is caught at the job boundary and becomes a
\* 500 line under the job's identifier; the pool goes on, and when main
\* leaves the pool every scheduled job has returned with its one line.
C8_ExceptionIsolated ==
    /\ \A j \in Scheduled :
          raised[j] =>
              /\ pc[j] = "write"
              /\ pending[j] = Line(j, 500)
    /\ main_pc \in {"summary", "returned"} =>
          \A j \in Scheduled : pc[j] = "done" /\ Len(outcome[j]) = 1

\* C8 witness: one job is writing the 500 of its exception while another
\* job is still running and a third is still queued.
C8_Witness ==
    \E i, j, k \in Scheduled :
        /\ raised[i] /\ pc[i] = "write"
        /\ pc[j] \in {"check", "create", "import", "update"}
        /\ pc[k] = "queued"

\* C9: after the interrupt, no job that was still queued is started.
C9_NoStartAfterCancel ==
    [][\A j \in Jobs : (cancelled /\ pc[j] = "queued") => pc'[j] = "queued"]_vars

\* C10 (as claimed): in the second execution no creation call is issued,
\* and when it has run every file to the end there is exactly one version
\* set per key and one API per id.
C10_SecondRunCreatesNothing ==
    run = "second" =>
        /\ \A j \in Scheduled : pc[j] # "create" /\ calls[j].create = 0
        /\ (main_pc = "returned" /\ Len(futures) = Len(api_files)) =>
              \A j \in DOMAIN api_files :
                  version_sets[ApiId(j)] = 1 /\ apis[ApiId(j)] = 1

\* C10 (amended): the gateway never holds more than one version set per
\* key or more than one API per id; a job past the ensure step has exactly
\* one version set; and in the second execution no creation call is issued
\* for a key whose version set existed when the first execution ended.
C10_Idempotent ==
    /\ \A k \in BaseNames : version_sets[k] <= 1 /\ apis[k] <= 1
    /\ \A j \in Scheduled :
          /\ pc[j] \in {"import", "update"} => version_sets[ApiId(j)] = 1
          /\ success[j] => apis[ApiId(j)] = 1
          /\ (run = "second" /\ sets_before[ApiId(j)] > 0) =>
                pc[j] # "create" /\ calls[j].create = 0

\* C10 witness: in the second execution a job has found the version set
\* the first execution left and has gone on to the import.
C10_Witness ==
    \E j \in Scheduled :
        /\ run = "second"
        /\ sets_before[ApiId(j)] > 0
        /\ pc[j] = "import"
        /\ calls[j].check = 1
        /\ calls[j].create = 0

\* A worker takes job j off the queue in this step
Started(j) == pc[j] = "queued" /\ pc'[j] # "queued"

\* C11: a job whose document declares no info.version, or whose document is
\* unparsable, goes on to the version-set step with version "1.0" and does
\* not end in a failure outcome at the load.
C11_DefaultOrUnparsableProceeds ==
    [][\A j \in Jobs :
          (Started(j) /\ api_files[j].kind \in {"unloadable", "noinfo", "noversion"})
              => (pc'[j] = "check" /\ version_id'[j] = "1.0")]_vars

\* C11 (amended): the version is the declared info.version, "1.0" when the
\* info key or its version key is absent, and None when version is null; the
\* job then goes on to the version-set step and keeps that version.  A
\* document that does not parse, that is empty or no mapping, or whose info
\* is null raises at the load: the job opens the ledger for (base name, 500)
\* without a remote call.
C11_VersionDerivation ==
    [][\A j \in Jobs :
          /\ (Started(j) /\ api_files[j].kind \in {"noinfo", "noversion"})
                => (pc'[j] = "check" /\ version_id'[j] = "1.0")
          /\ (Started(j) /\ api_files[j].kind = "spec")
                => (pc'[j] = "check" /\ version_id'[j] = "declared")
          /\ (Started(j) /\ api_files[j].kind = "nullversion")
                => (pc'[j] = "check" /\ version_id'[j] = "None")
          /\ (Started(j) /\ api_files[j].kind \in
                  {"unloadable", "empty", "notmapping", "nullinfo"})
                => /\ pc'[j] = "write"
                   /\ raised'[j]
                   /\ pending'[j] = [id |-> BaseName(j), code |-> 500]
                   /\ calls'[j] = NoCalls
          /\ pc[j] \in {"check", "create", "import", "update"}
                => version_id'[j] = version_id[j]]_vars

\* C11 witness: a job whose document has no info.version has reached the
\* import with version "1.0".
C11_Witness ==
    \E j \in Scheduled :
        /\ api_files[j].kind = "noversion"
        /\ pc[j] = "import"
        /\ version_id[j] = "1.0"
        /\ calls[j].check = 1

\* C12: when the run has come to its summary, one job was built for every
\* file of the list and every file of the list has an outcome line in the
\* ledger.
C12_EveryListedFileHasOutcome ==
    (main_pc \in {"summary", "returned"} /\ ~cancelled) =>
        \A j \in DOMAIN api_files :
            /\ j \in Scheduled
            /\ \E i \in DOMAIN ledger : ledger[i].id = BaseName(j)

\* C12 (amended): when an uninterrupted run has come to its summary, every
\* listed path that is a regular file has exactly one job, which is done
\* and has appended exactly one outcome line under the file's base name; a
\* listed path that is not a regular file has no job and has appended
\* nothing.
C12_OneJobPerRegularFile ==
    (main_pc \in {"summary", "returned"} /\ ~cancelled) =>
        \A j \in DOMAIN api_files :
            IF api_files[j].kind # "missing"
              THEN /\ Cardinality({i \in DOMAIN futures : futures[i] = j}) = 1
                   /\ pc[j] = "done"
                   /\ Len(outcome[j]) = 1
                   /\ outcome[j][1].id = BaseName(j)
              ELSE /\ j \notin Scheduled
                   /\ pc[j] = "unsubmitted"
                   /\ outcome[j] = <<>>

\* C12 witness: a run over a list with a regular file and a path that is
\* no regular file has come to its summary.
C12_Witness ==
    /\ main_pc = "summary"
    /\ \E j \in DOMAIN api_files : api_files[j].kind = "missing"
    /\ \E j \in DOMAIN api_files :
          api_files[j].kind = "spec" /\ Len(outcome[j]) = 1

\* C19: the remote calls of one job are ordered.  An import attempt is made
\* only after the check, with the version set found or created without
\* error; the metadata read and update are made only after an import
\* attempt has succeeded; and the line 200 is opened only after the update
\* has succeeded.
C19_RemoteCallsOrdered ==
    \A j \in Scheduled :
        /\ (pc[j] = "import" \/ calls[j].import > 0) =>
              /\ calls[j].check = 1
              /\ version_sets[ApiId(j)] >= 1
              /\ calls[j].create <= 1
              /\ create_error[j] = "none"
        /\ (pc[j] = "update" \/ calls[j].get > 0 \/ calls[j].update > 0) =>
              /\ success[j]
              /\ calls[j].import >= 1
              /\ apis[ApiId(j)] >= 1
        /\ pending[j].code = 200 =>
              /\ pc[j] = "write"
              /\ success[j]
              /\ calls[j].get = 1
              /\ calls[j].update = 1

\* C19 witness: a job that created its version set and needed a second
\* import attempt has updated the metadata and is about to write 200.
C19_Witness ==
    \E j \in Scheduled :
        /\ pc[j] = "write"
        /\ pending[j].code = 200
        /\ calls[j].create = 1
        /\ calls[j].import = 2
        /\ calls[j].update = 1

\* C20: the creation call is made at most once per job; when it fails the
\* job has made no import attempt and no metadata call, opens the ledger
\* for 500, and its only further step is the write of that line, after
\* which it is done with the single outcome 500.
C20_CreateFailureEndsJob ==
    [][\A j \in Jobs :
          /\ calls[j].create <= 1
          /\ create_error[j] # "none" =>
                /\ pc[j] = "write"
                /\ pending[j] = Line(j, 500)
                /\ resume[j] = "return"
                /\ calls[j] = [NoCalls EXCEPT !.check = 1, !.create = 1]
                /\ pc'[j] \in {"write", "done"}
                /\ pc'[j] = "done" => outcome'[j] = <<Line(j, 500)>>
                /\ calls'[j].create <= 1
                /\ calls'[j].import = 0
                /\ calls'[j].get = 0
                /\ calls'[j].update = 0]_vars

\* C20 witness: the version set was absent, the creation call failed in
\* transport, and the job is about to write 500.
C20_Witness ==
    \E j \in Scheduled :
        /\ create_error[j] = "transport"
        /\ version_sets[ApiId(j)] = 0
        /\ pc[j] = "write"
        /\ pending[j] = Line(j, 500)
        /\ calls[j].create = 1

\* C21: when an import attempt has succeeded and the metadata read or
\* update then fails, the job opens the ledger for 500, never 400; its only
\* further step is the write of that line, after which it is done with the
\* single outcome 500: no import attempt and no metadata call follows.  The
\* API stored by the import stays in the gateway.
C21_UpdateFailureIs500 ==
    [][\A j \in Jobs :
          /\ (pc[j] = "update" /\ pc'[j] = "write" /\ calls'[j].update = 0)
                => pending'[j] = Line(j, 500)
          /\ (pc[j] = "update" /\ pc'[j] = "write" /\ pending'[j].code # 200)
                => /\ pending'[j] = Line(j, 500)
                   /\ success'[j]
                   /\ calls'[j].get = 1
                   /\ calls'[j].update <= 1
          /\ (pc[j] = "write" /\ success[j] /\ pending[j].code # 200)
                => /\ pending[j] = Line(j, 500)
                   /\ apis[ApiId(j)] = 1
                   /\ pc'[j] \in {"write", "done"}
                   /\ pc'[j] = "done" => outcome'[j] = <<Line(j, 500)>>
                   /\ pc'[j] = "write" => calls'[j] = calls[j]
                   /\ apis'[ApiId(j)] = 1
          /\ (pc[j] = "done" /\ outcome[j] = <<Line(j, 500)>>)
                => apis'[ApiId(j)] >= apis[ApiId(j)]]_vars

\* C21 witness: the import succeeded at the second attempt, the update
\* call failed, and the job is about to write 500 with the API stored.
C21_Witness ==
    \E j \in Scheduled :
        /\ pc[j] = "write"
        /\ success[j]
        /\ pending[j] = Line(j, 500)
        /\ calls[j].import = 2
        /\ calls[j].update = 1
        /\ apis[ApiId(j)] = 1

\* The job has returned with one line of a terminal code
Terminal(j) ==
    /\ pc[j] = "done"
    /\ Len(outcome[j]) = 1
    /\ outcome[j][1].code \in Codes

\* C22: under fair scheduling every run terminates.  No job ever makes more
\* than one existence check, one creation call, MAX_RETRIES import attempts
\* or one metadata update, and eventually main has returned with every
\* scheduled job in a terminal state, its outcome 200, 400 or 500 written.
C22_Terminates ==
    /\ [](\A j \in Jobs :
            /\ calls[j].check <= 1
            /\ calls[j].create <= 1
            /\ calls[j].import <= MAX_RETRIES
            /\ calls[j].update <= 1)
    /\ <>(/\ main_pc = "returned"
          /\ exit_code \in {0, 1}
          /\ \A j \in Scheduled : Terminal(j))

\* C22 witness: main has returned from a run of three jobs, one of which
\* was still queued while the two workers were busy, and each of which has
\* its one outcome.
C22_Witness ==
    /\ main_pc = "returned"
    /\ exit_code = 0
    /\ Len(futures) = NumFiles
    /\ \A j \in Scheduled : Terminal(j)
    /\ \E j \in Scheduled : outcome[j][1].code = 400

\* C23: the result file is read only after every scheduled job has
\* returned with its line written, so that no line is appended after the
\* read, and the summary built from it carries the outcome of every
\* scheduled job.
C23_SummaryReflectsEveryOutcome ==
    /\ main_pc \in {"summary", "returned"} =>
          \A j \in Scheduled : pc[j] = "done" /\ Len(outcome[j]) = 1
    /\ (main_pc = "returned" /\ ~cancelled) =>
          \A j \in Scheduled : results[ApiId(j)] = outcome[j][1].code

\* C24: two distinct files scheduled in one run never have the same API
\* identifier, and the summary of an uninterrupted run has exactly one
\* entry per scheduled job.
C24_DistinctFilesDistinctIds ==
    /\ \A i, j \in Scheduled : i # j => ApiId(i) # ApiId(j)
    /\ (main_pc = "returned" /\ ~cancelled) =>
          Cardinality({k \in BaseNames : results[k] # 0}) = Len(futures)

(* ---------------- properties of the version-set script ------------- *)

\* The keys of the listed files that follow name-vN.yaml
ConventionKeys ==
    {n \in Names : \E v \in Versions : Conventional(n, v) \in listing}

RemoteCalls == tokens + Cardinality({k \in Keys : puts[k] > 0})

\* C25: when the script has ended, createOrUpdateVersionSet has been called
\* exactly once for every key of a listed file that follows name-vN.yaml
\* and for no other key; and when no listed file follows the convention
\* the script has exited with a non-zero status without a remote call.
C25_OneCallPerKey ==
    az_pc \in {"returned", "exited"} =>
        /\ \A k \in Keys :
              cv_calls[k] = IF k \in ConventionKeys THEN 1 ELSE 0
        /\ ConventionKeys = {} => (az_exit # 0 /\ RemoteCalls = 0)

\* C25 (amended): createOrUpdateVersionSet is never called twice for a key
\* and only for keys of listed files that follow name-vN.yaml; a call sends
\* one token request and at most one PUT.  When main returns, every such
\* key has had its one call.  The script ends early with status 1, the
\* keys not yet reached uncalled, when a token request is refused or a
\* request raises; then every key that was called before the last one has
\* had its PUT.  When no listed file follows the convention the script
\* exits with status 1 without a call and without a remote request.
C25_AtMostOneCallPerKey ==
    /\ \A k \in Keys :
          /\ cv_calls[k] <= 1
          /\ cv_calls[k] = 1 => k \in ConventionKeys
          /\ puts[k] <= cv_calls[k]
    /\ tokens = Cardinality({k \in Keys : cv_calls[k] = 1})
    /\ az_pc = "returned" =>
          /\ az_exit = 0
          /\ ConventionKeys # {}
          /\ \A k \in ConventionKeys : cv_calls[k] = 1 /\ puts[k] = 1
    /\ (az_pc = "exited" /\ ConventionKeys # {}) =>
          /\ az_exit = 1
          /\ tokens >= 1
          /\ Cardinality({k \in Keys : puts[k] = 1}) >= tokens - 1
    /\ (ConventionKeys = {} /\ az_pc # "main") =>
          /\ az_pc = "exited"
          /\ az_exit = 1
          /\ RemoteCalls = 0
          /\ \A k \in Keys : cv_calls[k] = 0

\* C25 witness: a-v1.yaml, a-v2.yaml and a file outside the convention were
\* listed, and main has returned after a single call, for key a.
C25_Witness ==
    /\ az_pc = "returned"
    /\ Conventional(<<"a">>, <<"1">>) \in listing
    /\ Conventional(<<"a">>, <<"2">>) \in listing
    /\ listing \cap OtherNames # {}
    /\ cv_calls[<<"a">>] = 1
    /\ tokens = 1

(* ---------------- properties of the validator ---------------- *)

\* The positions of the validator's main in the order they are passed
Stages ==
    <<"construct", "validate", "check_operation_ids", "check_path_parameters",
      "check_security_definitions", "check_content_types",
      "check_path_trailing_slashes", "check_servers",
      "check_response_definitions", "check_ref_siblings", "spectral",
      "report", "exit", "exited">>

StageIndex(p) == CHOOSE i \in 1..Len(Stages) : Stages[i] = p

\* The check of this name has run to its end, and no check has raised
Done(name) ==
    /\ \E i \in 1..Len(Stages) : Stages[i] = v_pc
    /\ StageIndex(v_pc) > StageIndex(name)

ErrorsOfKind(kind) == SelectSeq(errors, LAMBDA e : e.kind = kind)

\* C13: when the run of a document is over, validate() and report() have
\* returned the same verdict, and that verdict is True exactly when the
\* errors list is empty.
C13_VerdictsAgree ==
    v_pc \in {"exit", "exited"} =>
        /\ is_valid = spec_valid
        /\ spec_valid = "True" <=> errors = <<>>

\* C14: validate never raises for a document that loads.
C14_ValidateNeverRaises == spec_file.parses => v_pc # "raised"

IsV3(doc) ==
    /\ doc.t = "map"
    /\ In("openapi", doc)
    /\ Item(doc, "openapi").t = "str"
    /\ StartsWith(Item(doc, "openapi"), <<"3", ".">>)

\* C15: for an OpenAPI 3.x document the missing-servers error is appended
\* exactly when the servers key is absent; servers: [] gives no error.
C15_ErrorOnlyWhenServersAbsent ==
    (Done("check_servers") /\ IsV3(spec)) =>
        (ErrorsOfKind("No servers defined") # <<>> <=> ~In("servers", spec))

\* The values Python takes as false
Falsy ==
    {Null, List(<<>>), Map(<<>>), StrTok(<<>>), Bool(FALSE), IntTok(<<"0">>)}

\* C15 (amended): when check_servers has run, the missing-servers error is
\* there once if the document is OpenAPI 3.x and its servers key is absent
\* or holds a false value (null, an empty list), and is not there at all
\* otherwise.
C15_ErrorWhenNoServerDeclared ==
    (Done("check_servers") /\ spec.t = "map") =>
        Len(ErrorsOfKind("No servers defined")) =
            IF IsV3(spec) /\ (~In("servers", spec)
                                \/ Item(spec, "servers") \in Falsy)
              THEN 1 ELSE 0

\* C15 witness: an OpenAPI 3.x document with servers: [] has passed
\* check_servers and carries the missing-servers error.
C15_Witness ==
    /\ Done("check_servers")
    /\ IsV3(spec)
    /\ In("servers", spec)
    /\ Item(spec, "servers") = List(<<>>)
    /\ Len(ErrorsOfKind("No servers defined")) = 1

\* The parameters a path item or an operation declares
ParamsOf(x) ==
    IF x.t = "map" /\ In("parameters", x) /\ Item(x, "parameters").t = "list"
      THEN {Item(x, "parameters").ch[i].v :
              i \in 1..Len(Item(x, "parameters").ch)}
      ELSE {}

IsPathParam(p) == p.t = "map" /\ Get(p, "in", Null) = Str("path")

\* The path parameters that apply to an operation: its own, and those of
\* the path item that it does not declare itself
Applicable(path_item, operation) ==
    {p \in ParamsOf(operation) : IsPathParam(p)}
    \cup {p \in ParamsOf(path_item) :
            /\ IsPathParam(p)
            /\ ~\E q \in ParamsOf(operation) :
                  IsPathParam(q) /\ Get(q, "name", Null) = Get(p, "name", Null)}

\* The operations of a document: (index of the path entry, method)
OperationsOf(doc) ==
    IF doc.t = "map" /\ In("paths", doc) /\ Item(doc, "paths").t = "map"
      THEN {<<i, m>> \in (1..Len(Item(doc, "paths").ch)) \X (1..Len(METHODS)) :
              /\ Item(doc, "paths").ch[i].v.t = "map"
              /\ In(METHODS[m], Item(doc, "paths").ch[i].v)
              /\ Item(Item(doc, "paths").ch[i].v, METHODS[m]).t = "map"}
      ELSE {}

\* C16: when check_path_parameters has run, every path parameter that
\* applies to an operation and lacks required = true has produced a 'must
\* have required=true' error for that operation.
C16_EveryApplicablePathParamRequired ==
    Done("check_path_parameters") =>
        \A o \in OperationsOf(spec) :
            LET entry == Item(spec, "paths").ch[o[1]]
            IN  \A p \in Applicable(entry.v, Item(entry.v, METHODS[o[2]])) :
                    Get(p, "required", Null) # Bool(TRUE) =>
                        \E i \in 1..Len(errors) :
                            /\ errors[i].kind = "must have required=true"
                            /\ errors[i].name = Get(p, "name", Null)
                            /\ errors[i].method = METHODS[o[2]]
                            /\ errors[i].path = entry.k

\* The operations that carry an operationId, and the pairs of them that
\* carry the same one; (i, m) comes before (i2, m2) when its path entry
\* comes first, or its method comes first within the same path entry
Identified(doc) ==
    {o \in OperationsOf(doc) :
        In("operationId",
           Item(Item(doc, "paths").ch[o[1]].v, METHODS[o[2]]))}

IdOf(doc, o) ==
    Item(Item(Item(doc, "paths").ch[o[1]].v, METHODS[o[2]]), "operationId")

Before(o, o2) == o[1] < o2[1] \/ (o[1] = o2[1] /\ o[2] < o2[2])

SharedPairs(doc) ==
    {pr \in Identified(doc) \X Identified(doc) :
        Before(pr[1], pr[2]) /\ IdOf(doc, pr[1]) = IdOf(doc, pr[2])}

\* The fields of a path item that hold an operation (OpenAPI 3)
HttpMethods ==
    {"get", "put", "post", "delete", "options", "head", "patch", "trace"}

\* Every operation of a document that carries an operationId: (index of
\* the path entry, method)
AllIdentified(doc) ==
    IF doc.t = "map" /\ In("paths", doc) /\ Item(doc, "paths").t = "map"
      THEN {o \in (1..Len(Item(doc, "paths").ch)) \X HttpMethods :
              /\ Item(doc, "paths").ch[o[1]].v.t = "map"
              /\ In(o[2], Item(doc, "paths").ch[o[1]].v)
              /\ Item(Item(doc, "paths").ch[o[1]].v, o[2]).t = "map"
              /\ In("operationId", Item(Item(doc, "paths").ch[o[1]].v, o[2]))}
      ELSE {}

AllIdOf(doc, o) ==
    Item(Item(Item(doc, "paths").ch[o[1]].v, o[2]), "operationId")

\* The sets of two operations with the same operationId
AllSharing(doc) ==
    {pr \in SUBSET AllIdentified(doc) :
        /\ Cardinality(pr) = 2
        /\ \A o \in pr, o2 \in pr : AllIdOf(doc, o) = AllIdOf(doc, o2)}

RECURSIVE Nodes(_, _)
Nodes(obj, path) ==
    {[at |-> path, node |-> obj]}
    \cup UNION {Nodes(obj.ch[i].v,
                      Append(path, IF obj.t = "map"
                                     THEN [key |-> obj.ch[i].k, idx |-> -1]
                                     ELSE [key |-> Null, idx |-> i - 1])) :
                  i \in 1..Len(obj.ch)}

\* The places of the mappings that hold $ref and another key
Offending(doc) ==
    {n.at : n \in {m \in Nodes(doc, <<>>) :
                     /\ m.node.t = "map"
                     /\ \E i \in 1..Len(m.node.ch) : m.node.ch[i].k = Str("$ref")
                     /\ \E i \in 1..Len(m.node.ch) : m.node.ch[i].k # Str("$ref")}}

\* C18: when check_ref_siblings has run, the $ref errors are one per
\* mapping that holds $ref together with another key, at any depth and
\* inside lists, and there is none for any other value.
C18_OneErrorPerOffendingMapping ==
    Done("check_ref_siblings") =>
        LET refs == ErrorsOfKind("$ref with siblings")
        IN  /\ Len(refs) = Cardinality(Offending(spec))
            /\ {refs[i].at : i \in 1..Len(refs)} = Offending(spec)

\* C18 witness: a checked document holds an offending mapping nested in
\* another offending mapping and a mapping whose only key is $ref.
C18_Witness ==
    /\ v_pc = "exited"
    /\ \E a \in Offending(spec), b \in Offending(spec) :
          Len(a) < Len(b) /\ SubSeq(b, 1, Len(a)) = a
    /\ \E n \in Nodes(spec, <<>>) :
          n.node.t = "map" /\ Len(n.node.ch) = 1
            /\ n.node.ch[1].k = Str("$ref")
    /\ Len(ErrorsOfKind("$ref with siblings")) >= 2

====
